---- MODULE Spec2Model ----
(***************************************************************************)
(* A model of the admission-control and load-balancing core of the aegis   *)
(* data plane (data-plane/src): the per-backend circuit breaker and its    *)
(* manager, the token-bucket rate limiter and the load balancer.           *)
(*                                                                         *)
(* Time.  std::time::Instant is a monotonic clock; `now` counts ticks and  *)
(* one second is TicksPerSec ticks.  Durations given in seconds by the     *)
(* code are converted to ticks.                                            *)
(*                                                                         *)
(* Each component has its own specification (SpecBreaker, SpecLimiter,     *)
(* SpecBalancer): the components share no state but the clock, and a       *)
(* component's specification leaves the other components' variables at     *)
(* their constructed values.                                               *)
(***************************************************************************)
EXTENDS Integers, Sequences, FiniteSets, TLC

VARIABLES
    now,                \* the monotonic clock (Instant::now()), in ticks
    \* ---- CircuitBreakerManager (circuit_breaker.rs) ----
    breakers,           \* HashMap<String, CircuitBreaker>: a function on a set of addresses
    error_threshold,    \* CircuitBreakerManager.error_threshold
    timeout,            \* CircuitBreakerManager.timeout, in ticks
    cb_call,            \* the last manager call: <<name, address, state of the breaker before>>
    cb_ret,             \* what the last allow_request returned
    cb_fresh_failures,  \* per breaker: record_failure calls since construction, -1 once
                        \*   any other call reached the breaker        (observer, not code)
    cb_probe_successes, \* per breaker: record_success calls since it turned HalfOpen, -1
                        \*   when not in such a run                    (observer, not code)
    \* ---- a TokenBucket on its own (rate_limiter.rs) ----
    cb_streak,          \* per breaker: record_failure calls since its last record_success while
                        \*   Closed, its construction or its reset (counted up to
                        \*   max(error_threshold, 1)); -1 once it left Open or got a
                        \*   record_success while not Closed                 (observer)
    bucket,             \* TokenBucket {capacity, tokens, refill_rate, last_refill}
    bucket_call,        \* the last call: <<name, n, tokens before, ticks since last_refill>>
    bucket_ret,         \* what the last call returned: <<bool>> or <<u64>>
    \* ---- RateLimiter (rate_limiter.rs) ----
    global_limiter,           \* Mutex<TokenBucket>
    per_connection_limiters,  \* Mutex<HashMap<String, TokenBucket>>
    per_connection_limit,     \* Option<(rps, burst)>
    last_cleanup,             \* Mutex<Instant>
    rl_call,            \* the last call: <<name, connection id or "">>
    rl_ret,             \* what the last allow_request returned
    rl_burst,           \* per connection id (and "" for none): <<allow_request calls,
                        \*   calls admitted>> since construction while the clock has not
                        \*   advanced; <<-1, -1>> once it has, or past MaxBurst + 3 calls
                        \*                                            (observer, not code)
    \* ---- LoadBalancer (load_balancer.rs) ----
    backends,           \* RwLock<Vec<BackendWithStats>>
    algorithm,          \* Algorithm
    round_robin_counter,\* AtomicUsize
    hash_of,            \* DefaultHasher: the 64-bit hash of each context string
    lb_call,            \* the last call: <<name, argument>>
    lb_ret,             \* what the last selection returned: None or Some(address)
    lb_history,         \* under round robin and weighted round robin: what the
                        \*   selections since construction or the last update_backends
                        \*   returned, oldest first; under consistent hash: the
                        \*   first <<context, answer>> given to each context since
                        \*   then                                     (observer, not code)
    lb_complete,        \* lb_history starts at the construction     (observer, not code)
    lb_selects,         \* selections made so far                    (observer, not code)
    lb_inflight,        \* the addresses of the live LoadBalancerGuards (tcp_proxy.rs)
    \* ---- ProxyState (config.rs) ----
    config,             \* RwLock<Option<ProxyConfig>>
    cfg_pending,        \* the update_config calls between their two halves: a sequence
                        \*   of the configs they were called with
    active_connections, \* DashMap<u64, Arc<()>>: the set of registered connection ids
    connection_counter, \* Mutex<u64>
    draining,           \* Mutex<bool>
    cfg_call,           \* the last ProxyState call: <<name, argument>>
    cfg_ret,            \* what the last get_config / is_configured returned
    cfg_last,           \* the config of the last update_config that completed, None
                        \*   before the first                         (observer, not code)
    \* ---- the TCP engine (tcp_proxy.rs) and its gauge (metrics.rs) ----
    tcp_sessions,       \* the handle_connection tasks that have not returned, oldest
                        \*   first: [client, pc, conn_id, backend, exit]
    tcp_returned,       \* the path by which the last task returned, "" before
                        \*                                            (observer, not code)
    active_tcp_connections, \* MetricsCollector.active_tcp_connections: AtomicU64
    \* ---- the UDP engine (udp_proxy.rs) ----
    udp_sessions,       \* sessions: DashMap<String, UdpSession>, a function on the
                        \*   client keys: [backend_socket_addr, last_activity]
    udp_reverse,        \* reverse_sessions: DashMap<SocketAddr, String>
    udp_handlers,       \* the packet handlers between their session entry (line 190)
                        \*   and their reverse insert (line 193):
                        \*   [client_key, backend_socket_addr]
    udp_expired,        \* the reaper's expired_keys still to be removed
    udp_removed,        \* the backend_socket_addr of the session the reaper removed at
                        \*   line 115 and whose reverse entry it has yet to remove
    udp_tick_due,       \* the reaper's interval has ticked and the pass not begun
    udp_call,           \* the last step of the engine: <<name, peer or key>>
                        \*                                            (observer, not code)
    \* ---- the tasks around ProxyState: accept loop, DrainConnections, waiter ----
    tcp_loop,           \* tcp_proxy::run's loop: "check" (line 22), "accept" (line 27,
                        \*   awaiting a connection) or "stopped" (after the break)
    drain_rpc,          \* the DrainConnections call under way: [pc, before, flag], pc
                        \*   "idle" when there is none; before is active_before, flag
                        \*   the drain flag when it was called        (flag: observer)
    drain_ret,          \* what the last DrainConnections returned: None or
                        \*   Some([success, drained, before, timed_out])
    wait_pc,            \* a wait_for_config task: "idle" (not called), "checked"
                        \*   (is_configured was false), "waiting" (in notified()),
                        \*   "returned"
    reload_rpc          \* a ReloadBackends call: [pc, list, prior, ret]; ret is what the last
                        \* call returned: None, <<"ok", count>> or <<"error", message>>

breaker_vars == <<breakers, error_threshold, timeout, cb_call, cb_ret,
                  cb_fresh_failures, cb_probe_successes, cb_streak>>
bucket_vars == <<bucket, bucket_call, bucket_ret>>
limiter_vars == <<global_limiter, per_connection_limiters, per_connection_limit,
                  last_cleanup, rl_call, rl_ret, rl_burst>>

balancer_vars == <<backends, algorithm, round_robin_counter, hash_of, lb_call, lb_ret,
                   lb_history, lb_complete, lb_selects, lb_inflight>>

state_vars == <<config, cfg_pending, active_connections, connection_counter, draining,
                cfg_call, cfg_ret, cfg_last>>

\* the state of the proxy and its engines, which the components above do not touch
tcp_vars == <<tcp_sessions, tcp_returned, active_tcp_connections>>

udp_vars == <<udp_sessions, udp_reverse, udp_handlers, udp_expired, udp_removed,
              udp_tick_due, udp_call>>

rpc_vars == <<tcp_loop, drain_rpc, drain_ret, wait_pc, reload_rpc>>

engine_vars == <<state_vars, tcp_vars, udp_vars, rpc_vars>>

vars == <<now, breaker_vars, bucket_vars, limiter_vars, balancer_vars, engine_vars>>

----------------------------------------------------------------------------
(* Bounds of the model *)

MaxTime == 4            \* the clock stops advancing here
TicksPerSec == 2        \* resolution of the clock
MaxThreshold == 2       \* error_threshold ranges over 0..MaxThreshold
MaxTimeoutSecs == 1     \* timeout_secs ranges over 0..MaxTimeoutSecs

MaxRps == 1             \* requests_per_second ranges over 0..MaxRps
MaxBurst == 2           \* burst ranges over 0..MaxBurst
MaxLimiterTicks == 1    \* ticks the rate limiter's clock takes between two such advances
MaxJumps == 1           \* how often the clock may advance by a whole cleanup interval

MaxWeight == 2          \* a backend's weight ranges over 0..MaxWeight
MaxHash == 2            \* a context's hash ranges over 0..MaxHash
MaxSelects == 6         \* selections made in one run
MaxSessions == 1        \* LoadBalancerGuards alive at once
MaxUpdaters == 2        \* update_config calls in flight at once
MaxTcpSessions == 3     \* TCP connections registered in one run
MaxTcpLive == 2         \* handle_connection tasks running at once
MaxUdpIntervals == 7    \* cleanup intervals the clock advances while the UDP engine runs
MaxUdpHandlers == 1     \* packet handlers between their two table operations at once
MaxUdpSelects == 3      \* selections the UDP engine makes under round_robin

Addrs == {"b1", "b2"}   \* backend addresses the manager is asked about
Clients == {"A", "B"}   \* connection ids the rate limiter is asked about
BackendNames == <<"x", "y", "z">>  \* the addresses of a backend list, in vector order
Contexts == {"c1", "c2"}           \* client IPs given as the hashing context

AddressesOf(names) == {names[i] : i \in 1..Len(names)}

\* the backend lists over a prefix of BackendNames, each backend with a weight
\* among `weights` and any health
ListsOver(weights) ==
    UNION { {l \in [1..n -> [address : AddressesOf(BackendNames),
                              weight : weights,
                              healthy : BOOLEAN]] :
                \A i \in 1..n : l[i].address = BackendNames[i]}
            : n \in 0..Len(BackendNames) }

\* the lists a balancer is constructed with
BackendLists == ListsOver(0..MaxWeight)

\* the lists update_backends is called with
ReloadLists == ListsOver({1})

----------------------------------------------------------------------------
(* Option<T>: None is <<>>, Some(x) is <<x>> *)

\* s without its i-th element
RemoveAt(s, i) == [j \in 1..(Len(s) - 1) |-> IF j < i THEN s[j] ELSE s[j + 1]]

None == <<>>
Some(x) == <<x>>
IsSome(o) == o # <<>>
Unwrap(o) == o[1]

----------------------------------------------------------------------------
(* circuit_breaker.rs: CircuitBreaker *)

half_open_max_requests == 3

NewBreaker(threshold, tmo) ==
    [ state |-> "Closed",
      failure_count |-> 0,
      success_count |-> 0,
      last_failure_time |-> None,
      error_threshold |-> threshold,
      timeout |-> tmo,
      half_open_max_requests |-> half_open_max_requests ]

\* a reset that forgets the time of the last failure
transition_to_closed_keeps_time(b) ==
    [b EXCEPT !.state = "Closed", !.failure_count = 0, !.success_count = 0]

transition_to_closed(b) ==
    [b EXCEPT !.state = "Closed",
              !.failure_count = 0,
              !.success_count = 0,
              !.last_failure_time = None]

\* an opening that does not stamp the time
transition_to_open_keeps_time(b, t) == [b EXCEPT !.state = "Open"]

transition_to_open(b, t) ==
    [b EXCEPT !.state = "Open", !.last_failure_time = Some(t)]

transition_to_half_open(b) ==
    [b EXCEPT !.state = "HalfOpen", !.success_count = 0]

\* the comparison with > for >=
TimeoutElapsedStrict(b, t) == t - Unwrap(b.last_failure_time) > b.timeout

\* last_failure.elapsed() >= self.timeout
TimeoutElapsed(b, t) == t - Unwrap(b.last_failure_time) >= b.timeout

\* allow_request returns (the breaker afterwards, the bool returned)
BreakerAllowRequest(b, t) ==
    CASE b.state = "Closed" -> [b |-> b, ret |-> TRUE]
      [] b.state = "Open" ->
            IF IsSome(b.last_failure_time)
            THEN IF TimeoutElapsed(b, t)
                 THEN [b |-> transition_to_half_open(b), ret |-> TRUE]
                 ELSE [b |-> b, ret |-> FALSE]
            ELSE [b |-> b, ret |-> FALSE]
      [] b.state = "HalfOpen" ->
            [b |-> b, ret |-> b.success_count < b.half_open_max_requests]

\* closes one success late
BreakerRecordSuccessLate(b) ==
    CASE b.state = "Closed" -> [b EXCEPT !.failure_count = 0]
      [] b.state = "HalfOpen" ->
            LET b1 == [b EXCEPT !.success_count = @ + 1]
            IN  IF b1.success_count > b1.half_open_max_requests
                THEN transition_to_closed(b1)
                ELSE b1
      [] b.state = "Open" -> b

\* a success that leaves failure_count of a Closed breaker as it is
BreakerRecordSuccessKeepsCount(b) ==
    CASE b.state = "Closed" -> b
      [] b.state = "HalfOpen" ->
            LET b1 == [b EXCEPT !.success_count = @ + 1]
            IN  IF b1.success_count >= b1.half_open_max_requests
                THEN transition_to_closed(b1)
                ELSE b1
      [] b.state = "Open" -> b

\* failure_count and success_count are u32; neither can pass
\* max(error_threshold, 1) resp. half_open_max_requests, so no wrap is modelled.
BreakerRecordSuccess(b) ==
    CASE b.state = "Closed" -> [b EXCEPT !.failure_count = 0]
      [] b.state = "HalfOpen" ->
            LET b1 == [b EXCEPT !.success_count = @ + 1]
            IN  IF b1.success_count >= b1.half_open_max_requests
                THEN transition_to_closed(b1)
                ELSE b1
      [] b.state = "Open" -> b

\* opens one failure late
BreakerRecordFailureLate(b, t) ==
    CASE b.state = "Closed" ->
            LET b1 == [b EXCEPT !.failure_count = @ + 1,
                                !.last_failure_time = Some(t)]
            IN  IF b1.failure_count > b1.error_threshold
                THEN transition_to_open(b1, t)
                ELSE b1
      [] b.state = "HalfOpen" -> transition_to_open(b, t)
      [] b.state = "Open" -> [b EXCEPT !.last_failure_time = Some(t)]

\* a failure that an Open breaker ignores
BreakerRecordFailureOpenIdle(b, t) ==
    CASE b.state = "Closed" ->
            LET b1 == [b EXCEPT !.failure_count = @ + 1,
                                !.last_failure_time = Some(t)]
            IN  IF b1.failure_count >= b1.error_threshold
                THEN transition_to_open(b1, t)
                ELSE b1
      [] b.state = "HalfOpen" -> transition_to_open(b, t)
      [] b.state = "Open" -> b

BreakerRecordFailure(b, t) ==
    CASE b.state = "Closed" ->
            LET b1 == [b EXCEPT !.failure_count = @ + 1,
                                !.last_failure_time = Some(t)]
            IN  IF b1.failure_count >= b1.error_threshold
                THEN transition_to_open(b1, t)
                ELSE b1
      [] b.state = "HalfOpen" -> transition_to_open(b, t)
      [] b.state = "Open" -> [b EXCEPT !.last_failure_time = Some(t)]

BreakerReset(b) == transition_to_closed(b)

----------------------------------------------------------------------------
(* circuit_breaker.rs: CircuitBreakerManager *)

\* HashMap::get on the breaker map, as the state name or "Absent"
StateOf(m, a) == IF a \in DOMAIN m THEN m[a].state ELSE "Absent"

\* entry(addr).or_insert_with(|| CircuitBreaker::new(..))
EntryOrInsert(m, a) ==
    IF a \in DOMAIN m THEN m
    ELSE [x \in DOMAIN m \cup {a} |->
            IF x = a THEN NewBreaker(error_threshold, timeout) ELSE m[x]]

\* the observers of one breaker after a call other than record_failure
Touched(f, a) == [x \in DOMAIN f \cup {a} |-> IF x = a THEN -1 ELSE f[x]]

\* the manager's calls, as they change the manager
ManagerAllowRequestCall(a) ==
    LET m == EntryOrInsert(breakers, a)
        r == BreakerAllowRequest(m[a], now)
    IN  /\ breakers' = [m EXCEPT ![a] = r.b]
        /\ cb_ret' = r.ret
        /\ cb_call' = <<"allow_request", a, StateOf(breakers, a)>>
        /\ cb_fresh_failures' = Touched(cb_fresh_failures, a)
        /\ cb_probe_successes' =
              [x \in DOMAIN cb_probe_successes \cup {a} |->
                 IF x # a THEN cb_probe_successes[x]
                 ELSE IF m[a].state = "Open" /\ r.b.state = "HalfOpen" THEN 0
                 ELSE IF a \in DOMAIN cb_probe_successes THEN cb_probe_successes[a]
                 ELSE -1]
        /\ cb_streak' =
              [x \in DOMAIN cb_streak \cup {a} |->
                 IF x # a THEN cb_streak[x]
                 ELSE IF a \notin DOMAIN cb_streak THEN 0
                 ELSE IF m[a].state = "Open" /\ r.b.state = "HalfOpen" THEN -1
                 ELSE cb_streak[a]]
        /\ UNCHANGED <<error_threshold, timeout>>

ManagerAllowRequest(a) ==
    ManagerAllowRequestCall(a) /\ UNCHANGED <<now, bucket_vars, limiter_vars, balancer_vars, engine_vars>>

\* record_success through entry().or_insert_with(), like the other two calls
ManagerRecordSuccessInserting(a) ==
    LET m == EntryOrInsert(breakers, a)
    IN  /\ breakers' = [m EXCEPT ![a] = BreakerRecordSuccess(@)]
        /\ cb_call' = <<"record_success", a, StateOf(breakers, a)>>
        /\ cb_fresh_failures' = Touched(cb_fresh_failures, a)
        /\ cb_probe_successes' = Touched(cb_probe_successes, a)
        /\ cb_streak' = [x \in DOMAIN cb_streak \cup {a} |->
                           IF x # a THEN cb_streak[x]
                           ELSE IF breakers'[a].state = "Closed" THEN 0 ELSE -1]
        /\ UNCHANGED <<now, error_threshold, timeout, cb_ret, bucket_vars, limiter_vars, balancer_vars, engine_vars>>

ManagerRecordSuccessCall(a) ==
    /\ breakers' = IF a \in DOMAIN breakers
                   THEN [breakers EXCEPT ![a] = BreakerRecordSuccess(@)]
                   ELSE breakers
    /\ cb_call' = <<"record_success", a, StateOf(breakers, a)>>
    /\ cb_fresh_failures' = IF a \in DOMAIN breakers
                            THEN Touched(cb_fresh_failures, a)
                            ELSE cb_fresh_failures
    /\ cb_probe_successes' =
          IF a \in DOMAIN breakers
          THEN [cb_probe_successes EXCEPT ![a] =
                  IF @ >= 0 /\ @ < half_open_max_requests THEN @ + 1 ELSE -1]
          ELSE cb_probe_successes
    /\ cb_streak' = IF a \in DOMAIN breakers
                    THEN [cb_streak EXCEPT ![a] =
                            IF breakers'[a].state = "Closed" THEN 0 ELSE -1]
                    ELSE cb_streak
    /\ UNCHANGED <<error_threshold, timeout, cb_ret>>

ManagerRecordSuccess(a) ==
    ManagerRecordSuccessCall(a) /\ UNCHANGED <<now, bucket_vars, limiter_vars, balancer_vars, engine_vars>>

ManagerRecordFailureCall(a) ==
    LET m == EntryOrInsert(breakers, a)
    IN  /\ breakers' = [m EXCEPT ![a] = BreakerRecordFailure(@, now)]
        /\ cb_call' = <<"record_failure", a, StateOf(breakers, a)>>
        /\ cb_fresh_failures' =
              [x \in DOMAIN cb_fresh_failures \cup {a} |->
                 IF x # a THEN cb_fresh_failures[x]
                 ELSE IF a \notin DOMAIN cb_fresh_failures THEN 1
                 ELSE IF cb_fresh_failures[a] >= 0
                         /\ cb_fresh_failures[a] <= error_threshold
                      THEN cb_fresh_failures[a] + 1
                 ELSE cb_fresh_failures[a]]
        /\ cb_probe_successes' = Touched(cb_probe_successes, a)
        /\ cb_streak' =
              [x \in DOMAIN cb_streak \cup {a} |->
                 IF x # a THEN cb_streak[x]
                 ELSE IF a \notin DOMAIN cb_streak THEN 1
                 ELSE IF cb_streak[a] >= 0
                      THEN IF cb_streak[a] < error_threshold \/ cb_streak[a] = 0
                           THEN cb_streak[a] + 1 ELSE cb_streak[a]
                 ELSE -1]
        /\ UNCHANGED <<error_threshold, timeout, cb_ret>>

ManagerRecordFailure(a) ==
    ManagerRecordFailureCall(a) /\ UNCHANGED <<now, bucket_vars, limiter_vars, balancer_vars, engine_vars>>

ManagerResetBackend(a) ==
    /\ breakers' = IF a \in DOMAIN breakers
                   THEN [breakers EXCEPT ![a] = BreakerReset(@)]
                   ELSE breakers
    /\ cb_call' = <<"reset_backend", a, StateOf(breakers, a)>>
    /\ cb_fresh_failures' = IF a \in DOMAIN breakers
                            THEN Touched(cb_fresh_failures, a)
                            ELSE cb_fresh_failures
    /\ cb_probe_successes' = IF a \in DOMAIN breakers
                             THEN Touched(cb_probe_successes, a)
                             ELSE cb_probe_successes
    /\ cb_streak' = IF a \in DOMAIN breakers THEN [cb_streak EXCEPT ![a] = 0]
                    ELSE cb_streak
    /\ UNCHANGED <<now, error_threshold, timeout, cb_ret, bucket_vars, limiter_vars, balancer_vars, engine_vars>>

ManagerResetAll ==
    /\ breakers' = [x \in DOMAIN breakers |-> BreakerReset(breakers[x])]
    /\ cb_call' = <<"reset_all", "", "">>
    /\ cb_fresh_failures' = [x \in DOMAIN breakers |-> -1]
    /\ cb_probe_successes' = [x \in DOMAIN breakers |-> -1]
    /\ cb_streak' = [x \in DOMAIN breakers |-> 0]
    /\ UNCHANGED <<now, error_threshold, timeout, cb_ret, bucket_vars, limiter_vars, balancer_vars, engine_vars>>

\* The clock advances between two calls.
BreakerTick ==
    /\ now < MaxTime
    /\ now' = now + 1
    /\ cb_call' = <<"tick", "", "">>
    /\ UNCHANGED <<breakers, error_threshold, timeout, cb_ret,
                   cb_fresh_failures, cb_probe_successes, cb_streak, bucket_vars, limiter_vars,
                   balancer_vars, engine_vars>>

NextBreaker ==
    \/ \E a \in Addrs : ManagerAllowRequest(a)
    \/ \E a \in Addrs : ManagerRecordSuccess(a)
    \/ \E a \in Addrs : ManagerRecordFailure(a)
    \/ \E a \in Addrs : ManagerResetBackend(a)
    \/ ManagerResetAll
    \/ BreakerTick

----------------------------------------------------------------------------
(* rate_limiter.rs: TokenBucket                                            *)
(*                                                                         *)
(* tokens is an f64.  The model keeps it exactly, as a whole number of     *)
(* 1/TicksPerSec tokens: elapsed seconds times refill_rate is the ticks    *)
(* elapsed times refill_rate in that unit.                                 *)

Min(x, y) == IF x <= y THEN x ELSE y

\* n as f64, in the unit of tokens
Whole(n) == n * TicksPerSec

\* TokenBucket::new(requests_per_second, burst) at time t
NewBucket(rps, burst, t) ==
    [ capacity |-> burst,
      tokens |-> Whole(burst),
      refill_rate |-> rps,
      last_refill |-> t ]

\* a refill that does not cap at capacity
refill_uncapped(k, t) ==
    [k EXCEPT !.tokens = k.tokens + (t - k.last_refill) * k.refill_rate,
              !.last_refill = t]

refill(k, t) ==
    [k EXCEPT !.tokens = Min(k.tokens + (t - k.last_refill) * k.refill_rate,
                             Whole(k.capacity)),
              !.last_refill = t]

\* a rejected request takes what is left
try_consume_charging(k, n, t) ==
    LET k1 == refill(k, t)
    IN  IF k1.tokens >= Whole(n)
        THEN [k |-> [k1 EXCEPT !.tokens = @ - Whole(n)], ret |-> TRUE]
        ELSE [k |-> [k1 EXCEPT !.tokens = 0], ret |-> FALSE]

\* the comparison with > for >=
try_consume_strict(k, n, t) ==
    LET k1 == refill(k, t)
    IN  IF k1.tokens > Whole(n)
        THEN [k |-> [k1 EXCEPT !.tokens = @ - Whole(n)], ret |-> TRUE]
        ELSE [k |-> k1, ret |-> FALSE]

\* try_consume returns (the bucket afterwards, the bool returned)
try_consume(k, n, t) ==
    LET k1 == refill(k, t)
    IN  IF k1.tokens >= Whole(n)
        THEN [k |-> [k1 EXCEPT !.tokens = @ - Whole(n)], ret |-> TRUE]
        ELSE [k |-> k1, ret |-> FALSE]

\* available_tokens returns (the bucket afterwards, self.tokens as u64)
available_tokens(k, t) ==
    LET k1 == refill(k, t)
    IN  [k |-> k1, ret |-> k1.tokens \div TicksPerSec]

BucketTryConsume(n) ==
    LET r == try_consume(bucket, n, now)
    IN  /\ bucket' = r.k
        /\ bucket_ret' = <<r.ret>>
        /\ bucket_call' = <<"try_consume", n, bucket.tokens, now - bucket.last_refill>>
        /\ UNCHANGED <<now, breaker_vars, limiter_vars, balancer_vars, engine_vars>>

BucketAvailableTokens ==
    LET r == available_tokens(bucket, now)
    IN  /\ bucket' = r.k
        /\ bucket_ret' = <<r.ret>>
        /\ bucket_call' = <<"available_tokens", 0, bucket.tokens, now - bucket.last_refill>>
        /\ UNCHANGED <<now, breaker_vars, limiter_vars, balancer_vars, engine_vars>>

BucketTick ==
    /\ now < MaxTime
    /\ now' = now + 1
    /\ bucket_call' = <<"tick", 0, bucket.tokens, 0>>
    /\ UNCHANGED <<bucket, bucket_ret, breaker_vars, limiter_vars, balancer_vars, engine_vars>>

NextBucket ==
    \/ \E n \in 0..(MaxBurst + 1) : BucketTryConsume(n)
    \/ BucketAvailableTokens
    \/ BucketTick

----------------------------------------------------------------------------
(* rate_limiter.rs: RateLimiter *)

cleanup_interval_secs == 60
cleanup_interval == cleanup_interval_secs * TicksPerSec

NoClient == ""

\* the observer of the calls made before the clock first advanced
BurstStale == [c \in Clients \cup {NoClient} |-> <<-1, -1>>]
BurstSeen(cid, admitted) ==
    [rl_burst EXCEPT ![cid] =
        IF @[1] < 0 \/ @[1] > MaxBurst + 2 THEN <<-1, -1>>
        ELSE <<@[1] + 1, @[2] + (IF admitted THEN 1 ELSE 0)>>]

\* cleanup_old_limiters: (the per-connection map, last_cleanup) afterwards
cleanup_old_limiters(limiters, t) ==
    IF t - last_cleanup < cleanup_interval
    THEN [limiters |-> limiters, last_cleanup |-> last_cleanup]
    ELSE LET seen == [c \in DOMAIN limiters |-> available_tokens(limiters[c], t)]
             kept == {c \in DOMAIN limiters : seen[c].ret < limiters[c].capacity}
         IN  [limiters |-> [c \in kept |-> seen[c].k], last_cleanup |-> t]

\* one bucket for every connection id
LimiterKeyShared(cid) == "A"

\* the key of a connection's bucket: conn_id.to_string()
LimiterKey(cid) == cid

\* the client's bucket as allow_request finds or creates it: the map with the
\* entry, for a connection id and a configured limit
WithEntry(limiters, key, limit, t) ==
    IF key \in DOMAIN limiters
    THEN limiters
    ELSE [c \in DOMAIN limiters \cup {key} |->
            IF c = key THEN NewBucket(limit[1], limit[2], t) ELSE limiters[c]]

\* an allow_request that looks up the client's bucket before the global check
AllowRequestCallClientFirst(cid) ==
    LET g == try_consume(global_limiter, 1, now)
        limited == IsSome(per_connection_limit) /\ cid # NoClient
        limiters == IF limited
                    THEN WithEntry(per_connection_limiters, LimiterKey(cid),
                                   Unwrap(per_connection_limit), now)
                    ELSE per_connection_limiters
        r == try_consume(limiters[LimiterKey(cid)], 1, now)
        consumed == IF limited THEN [limiters EXCEPT ![LimiterKey(cid)] = r.k]
                    ELSE limiters
        c == cleanup_old_limiters(consumed, now)
    IN  /\ global_limiter' = g.k
        /\ rl_call' = <<"allow_request", cid>>
        /\ rl_ret' = (g.ret /\ (limited => r.ret))
        /\ per_connection_limiters' = IF ~g.ret THEN limiters
                                      ELSE IF rl_ret' THEN c.limiters ELSE consumed
        /\ last_cleanup' = IF rl_ret' THEN c.last_cleanup ELSE last_cleanup
        /\ rl_burst' = BurstSeen(cid, rl_ret')
        /\ UNCHANGED per_connection_limit

\* an allow_request that gives the global token back when the client's bucket
\* rejects
AllowRequestCallRefund(cid) ==
    LET g == try_consume(global_limiter, 1, now)
        limited == IsSome(per_connection_limit) /\ cid # NoClient
        limiters == IF limited
                    THEN WithEntry(per_connection_limiters, LimiterKey(cid),
                                   Unwrap(per_connection_limit), now)
                    ELSE per_connection_limiters
        r == try_consume(limiters[LimiterKey(cid)], 1, now)
        consumed == IF limited THEN [limiters EXCEPT ![LimiterKey(cid)] = r.k]
                    ELSE limiters
        c == cleanup_old_limiters(consumed, now)
    IN  /\ rl_call' = <<"allow_request", cid>>
        /\ rl_ret' = (g.ret /\ (limited => r.ret))
        /\ global_limiter' = IF g.ret /\ ~rl_ret' THEN refill(global_limiter, now)
                             ELSE g.k
        /\ per_connection_limiters' = IF ~g.ret THEN per_connection_limiters
                                      ELSE IF rl_ret' THEN c.limiters ELSE consumed
        /\ last_cleanup' = IF rl_ret' THEN c.last_cleanup ELSE last_cleanup
        /\ rl_burst' = BurstSeen(cid, rl_ret')
        /\ UNCHANGED per_connection_limit

\* allow_request(connection_id), as it changes the limiter; cid is NoClient for None
AllowRequestCall(cid) ==
    LET g == try_consume(global_limiter, 1, now)
    IN  /\ global_limiter' = g.k
        /\ rl_call' = <<"allow_request", cid>>
        /\ IF ~g.ret
           THEN /\ rl_ret' = FALSE
                /\ UNCHANGED <<per_connection_limiters, last_cleanup>>
           ELSE IF IsSome(per_connection_limit) /\ cid # NoClient
           THEN LET limit == Unwrap(per_connection_limit)
                    key == LimiterKey(cid)
                    limiters ==
                        IF key \in DOMAIN per_connection_limiters
                        THEN per_connection_limiters
                        ELSE [c \in DOMAIN per_connection_limiters \cup {key} |->
                                IF c = key THEN NewBucket(limit[1], limit[2], now)
                                ELSE per_connection_limiters[c]]
                    r == try_consume(limiters[key], 1, now)
                    consumed == [limiters EXCEPT ![key] = r.k]
                IN  IF ~r.ret
                    THEN /\ rl_ret' = FALSE
                         /\ per_connection_limiters' = consumed
                         /\ UNCHANGED last_cleanup
                    ELSE LET c == cleanup_old_limiters(consumed, now)
                         IN  /\ rl_ret' = TRUE
                             /\ per_connection_limiters' = c.limiters
                             /\ last_cleanup' = c.last_cleanup
           ELSE LET c == cleanup_old_limiters(per_connection_limiters, now)
                IN  /\ rl_ret' = TRUE
                    /\ per_connection_limiters' = c.limiters
                    /\ last_cleanup' = c.last_cleanup
        /\ rl_burst' = BurstSeen(cid, rl_ret')
        /\ UNCHANGED per_connection_limit

AllowRequest(cid) ==
    AllowRequestCall(cid) /\ UNCHANGED <<now, breaker_vars, bucket_vars, balancer_vars, engine_vars>>

\* get_global_stats reads through available_tokens, which refills
GetGlobalStats ==
    /\ global_limiter' = available_tokens(global_limiter, now).k
    /\ rl_call' = <<"get_global_stats", NoClient>>
    /\ UNCHANGED <<now, per_connection_limiters, per_connection_limit, last_cleanup,
                   rl_ret, rl_burst, breaker_vars, bucket_vars, balancer_vars, engine_vars>>

\* The clock advances by a tick, or by a whole cleanup interval.
LimiterTick ==
    /\ \/ (now % cleanup_interval) < MaxLimiterTicks /\ now' = now + 1
       \/ now < MaxJumps * cleanup_interval /\ now' = now + cleanup_interval
    /\ rl_call' = <<"tick", NoClient>>
    /\ rl_burst' = BurstStale
    /\ UNCHANGED <<global_limiter, per_connection_limiters, per_connection_limit,
                   last_cleanup, rl_ret, breaker_vars, bucket_vars, balancer_vars, engine_vars>>

NextLimiter ==
    \/ \E cid \in Clients \cup {NoClient} : AllowRequest(cid)
    \/ GetGlobalStats
    \/ LimiterTick

--------------------------------------------------------------------------------------------------------------------------------------------------------------------------------------------------------------------------
(* Unsigned 64-bit integers (AtomicU64, and AtomicUsize on a 64-bit target) *)
(* as four 16-bit limbs, least significant first: the checker's integers    *)
(* are narrower than the program's.                                         *)

Limb == 65536
U64(n) == <<n % Limb, n \div Limb, 0, 0>>
U64Max == <<Limb - 1, Limb - 1, Limb - 1, Limb - 1>>

\* fetch_add(1): wrapping
U64Inc(c) ==
    IF c[1] < Limb - 1 THEN <<c[1] + 1, c[2], c[3], c[4]>>
    ELSE IF c[2] < Limb - 1 THEN <<0, c[2] + 1, c[3], c[4]>>
    ELSE IF c[3] < Limb - 1 THEN <<0, 0, c[3] + 1, c[4]>>
    ELSE IF c[4] < Limb - 1 THEN <<0, 0, 0, c[4] + 1>>
    ELSE <<0, 0, 0, 0>>

\* fetch_sub(1): wrapping
U64Dec(c) ==
    IF c[1] > 0 THEN <<c[1] - 1, c[2], c[3], c[4]>>
    ELSE IF c[2] > 0 THEN <<Limb - 1, c[2] - 1, c[3], c[4]>>
    ELSE IF c[3] > 0 THEN <<Limb - 1, Limb - 1, c[3] - 1, c[4]>>
    ELSE IF c[4] > 0 THEN <<Limb - 1, Limb - 1, Limb - 1, c[4] - 1>>
    ELSE U64Max

U64Less(a, b) ==
    \E i \in 1..4 : a[i] < b[i] /\ \A j \in (i + 1)..4 : a[j] = b[j]

\* c % n for a small n > 0
U64Mod(c, n) ==
    LET r4 == c[4] % n
        r3 == (r4 * Limb + c[3]) % n
        r2 == (r3 * Limb + c[2]) % n
    IN  (r2 * Limb + c[1]) % n

\* c as i32: the low 32 bits, two's complement
AsI32(c) ==
    IF c[2] >= Limb \div 2 THEN (c[2] - Limb) * Limb + c[1] ELSE c[2] * Limb + c[1]

\* Rust's x % m on i32 for m > 0: the remainder has the sign of x
RustRem(x, m) ==
    IF x >= 0 THEN x % m
    ELSE IF x > -m THEN x
    ELSE -((-(x + m)) % m)

----------------------------------------------------------------------------
(* load_balancer.rs: LoadBalancer *)

\* Algorithm
Algorithms == {"RoundRobin", "LeastConnections", "WeightedRoundRobin", "ConsistentHash"}

\* Algorithm::from_str
from_str(s) ==
    CASE s = "least_connections" -> "LeastConnections"
      [] s \in {"weighted_round_robin", "weighted"} -> "WeightedRoundRobin"
      [] s = "consistent_hash" -> "ConsistentHash"
      [] OTHER -> "RoundRobin"

\* BackendWithStats for a Backend, as LoadBalancer::new and update_backends build it
WithStats(b) ==
    [ address |-> b.address, weight |-> b.weight, healthy |-> b.healthy,
      active_connections |-> U64(0) ]

\* backends.iter().filter(|b| b.backend.healthy).collect()
IsHealthy(b) == b.healthy

\* a snapshot that keeps the unhealthy backends
HealthyOfAll(bs) == bs

HealthyOf(bs) == SelectSeq(bs, IsHealthy)

\* a round robin that does not advance the counter
round_robin_stuck(hs, counter) ==
    IF Len(hs) = 0 THEN [ret |-> None, counter |-> counter]
    ELSE [ret |-> Some(hs[U64Mod(counter, Len(hs)) + 1].address), counter |-> counter]

\* each selection returns (the backend's address or None, the counter afterwards)
round_robin(hs, counter) ==
    IF Len(hs) = 0 THEN [ret |-> None, counter |-> counter]
    ELSE [ret |-> Some(hs[U64Mod(counter, Len(hs)) + 1].address),
          counter |-> U64Inc(counter)]

\* a scan that also takes a backend with as few connections as the least so far
least_connections_last(hs, counter) ==
    IF Len(hs) = 0 THEN [ret |-> None, counter |-> counter]
    ELSE LET scan[i \in 0..Len(hs)] ==
                 IF i = 0 THEN [min_connections |-> U64Max, selected_idx |-> 0]
                 ELSE IF ~U64Less(scan[i - 1].min_connections, hs[i].active_connections)
                      THEN [min_connections |-> hs[i].active_connections,
                            selected_idx |-> i - 1]
                      ELSE scan[i - 1]
         IN  [ret |-> Some(hs[scan[Len(hs)].selected_idx + 1].address),
              counter |-> counter]

\* the scan of the healthy backends: the first with fewer connections than all
\* before it wins
least_connections(hs, counter) ==
    IF Len(hs) = 0 THEN [ret |-> None, counter |-> counter]
    ELSE LET scan[i \in 0..Len(hs)] ==
                 IF i = 0 THEN [min_connections |-> U64Max, selected_idx |-> 0]
                 ELSE IF U64Less(hs[i].active_connections, scan[i - 1].min_connections)
                      THEN [min_connections |-> hs[i].active_connections,
                            selected_idx |-> i - 1]
                      ELSE scan[i - 1]
         IN  [ret |-> Some(hs[scan[Len(hs)].selected_idx + 1].address),
              counter |-> counter]

\* weights are i32 and the model's are small: the sums do not overflow
weighted_round_robin(hs, counter) ==
    IF Len(hs) = 0 THEN [ret |-> None, counter |-> counter]
    ELSE LET cumulative[i \in 0..Len(hs)] ==
                 IF i = 0 THEN 0 ELSE cumulative[i - 1] + hs[i].weight
             total_weight == cumulative[Len(hs)]
         IN  IF total_weight = 0 THEN round_robin(hs, counter)
             ELSE LET k == RustRem(AsI32(counter), total_weight)
                      hit == {i \in 1..Len(hs) : k < cumulative[i]}
                  IN  IF hit # {}
                      THEN [ret |-> Some(hs[CHOOSE i \in hit : \A j \in hit : i <= j].address),
                            counter |-> U64Inc(counter)]
                      ELSE round_robin(hs, U64Inc(counter))

\* a consistent hash without the round-robin fallback: no context hashes to 0
consistent_hash_no_fallback(hs, counter, context, hash) ==
    IF Len(hs) = 0 THEN [ret |-> None, counter |-> counter]
    ELSE IF IsSome(context)
         THEN [ret |-> Some(hs[(hash[Unwrap(context)] % Len(hs)) + 1].address),
               counter |-> counter]
         ELSE [ret |-> Some(hs[1].address), counter |-> counter]

\* a consistent hash that mixes the shared counter into the index
consistent_hash_rotating(hs, counter, context, hash) ==
    IF Len(hs) = 0 THEN [ret |-> None, counter |-> counter]
    ELSE IF IsSome(context)
         THEN [ret |-> Some(hs[((hash[Unwrap(context)] + U64Mod(counter, Len(hs)))
                                  % Len(hs)) + 1].address),
               counter |-> U64Inc(counter)]
         ELSE round_robin(hs, counter)

\* hash is hasher.finish() of the context string
consistent_hash(hs, counter, context, hash) ==
    IF Len(hs) = 0 THEN [ret |-> None, counter |-> counter]
    ELSE IF IsSome(context)
         THEN [ret |-> Some(hs[(hash[Unwrap(context)] % Len(hs)) + 1].address),
               counter |-> counter]
         ELSE round_robin(hs, counter)

select_backend_with_context(bs, alg, counter, context, hash) ==
    LET healthy == HealthyOf(bs)
    IN  IF Len(healthy) = 0 THEN [ret |-> None, counter |-> counter]
        ELSE CASE alg = "RoundRobin" -> round_robin(healthy, counter)
               [] alg = "LeastConnections" -> least_connections(healthy, counter)
               [] alg = "WeightedRoundRobin" -> weighted_round_robin(healthy, counter)
               [] alg = "ConsistentHash" -> consistent_hash(healthy, counter, context, hash)

\* the algorithms whose every selection reads the counter
CounterDriven == {"RoundRobin", "WeightedRoundRobin"}

\* under consistent_hash the history keeps the first answer given to each context
Remembers(alg, context, history) ==
    /\ alg = "ConsistentHash"
    /\ IsSome(context)
    /\ \A i \in 1..Len(history) : history[i][1] # Unwrap(context)

\* the first backend with the address, 0 when there is none
Find(bs, addr) ==
    LET at == {i \in 1..Len(bs) : bs[i].address = addr}
    IN  IF at = {} THEN 0 ELSE CHOOSE i \in at : \A j \in at : i <= j

\* select_backend_with_context(context); select_backend() is the call with None
Select(context) ==
    LET r == select_backend_with_context(backends, algorithm, round_robin_counter,
                                         context, hash_of)
    IN  /\ lb_selects < MaxSelects
        /\ round_robin_counter' = r.counter
        /\ lb_ret' = r.ret
        /\ lb_call' = <<"select", context>>
        /\ lb_history' = IF algorithm \in CounterDriven
                          THEN Append(lb_history, r.ret)
                          ELSE IF Remembers(algorithm, context, lb_history)
                               THEN Append(lb_history, <<Unwrap(context), r.ret>>)
                               ELSE lb_history
        /\ lb_selects' = lb_selects + 1
        /\ UNCHANGED <<now, backends, algorithm, hash_of, lb_complete, lb_inflight,
                       breaker_vars, bucket_vars, limiter_vars, engine_vars>>

\* the backend vector after increment_connections(addr)
increment_connections(bs, addr) ==
    LET i == Find(bs, addr)
    IN  IF i = 0 THEN bs ELSE [bs EXCEPT ![i].active_connections = U64Inc(@)]

\* a guard whose drop forgets the decrement
decrement_connections_forgotten(bs, addr) == bs

\* the backend vector after decrement_connections(addr)
decrement_connections(bs, addr) ==
    LET i == Find(bs, addr)
    IN  IF i = 0 THEN bs ELSE [bs EXCEPT ![i].active_connections = U64Dec(@)]

\* increment_connections(addr), by a session that then holds a LoadBalancerGuard
IncrementConnections(addr) ==
        /\ Len(lb_inflight) < MaxSessions
        /\ backends' = increment_connections(backends, addr)
        /\ lb_inflight' = Append(lb_inflight, addr)
        /\ lb_call' = <<"increment_connections", Some(addr)>>
        /\ UNCHANGED <<now, algorithm, round_robin_counter, hash_of, lb_ret, lb_history,
                       lb_complete, lb_selects, breaker_vars, bucket_vars, limiter_vars, engine_vars>>

\* decrement_connections(addr), by the drop of the s-th LoadBalancerGuard
DecrementConnections(s) ==
    LET addr == lb_inflight[s]
    IN  /\ backends' = decrement_connections(backends, addr)
        /\ lb_inflight' = [j \in 1..(Len(lb_inflight) - 1) |->
                             IF j < s THEN lb_inflight[j] ELSE lb_inflight[j + 1]]
        /\ lb_call' = <<"decrement_connections", Some(addr)>>
        /\ UNCHANGED <<now, algorithm, round_robin_counter, hash_of, lb_ret, lb_history,
                       lb_complete, lb_selects, breaker_vars, bucket_vars, limiter_vars, engine_vars>>

\* update_backends(list)
UpdateBackends(list) ==
    /\ backends' = [i \in 1..Len(list) |-> WithStats(list[i])]
    /\ lb_call' = <<"update_backends", None>>
    /\ lb_history' = <<>>
    /\ lb_complete' = FALSE
    /\ UNCHANGED <<now, algorithm, round_robin_counter, hash_of, lb_ret, lb_selects,
                   lb_inflight, breaker_vars, bucket_vars, limiter_vars, engine_vars>>

\* selection and reload, with no session counted
NextBalancer ==
    \/ \E context \in {None} \cup {Some(c) : c \in Contexts} : Select(context)
    \/ \E list \in ReloadLists : UpdateBackends(list)

\* selection, reload and the sessions' connection counting
NextConnections ==
    \/ \E context \in {None} \cup {Some(c) : c \in Contexts} : Select(context)
    \/ \E addr \in AddressesOf(BackendNames) : IncrementConnections(addr)
    \/ \E s \in 1..Len(lb_inflight) : DecrementConnections(s)
    \/ \E list \in ReloadLists : UpdateBackends(list)

----------------------------------------------------------------------------
(* config.rs: ProxyState *)

\* the ProxyConfig values the controller sends
ConfigLists == {<<[address |-> "x", weight |-> 1, healthy |-> TRUE]>>}
Configs ==
    { [ tcp_address |-> "tcp", udp_address |-> udp, backends |-> list,
        udp_backends |-> <<>>, algorithm |-> "round_robin", session_affinity |-> FALSE,
        rate_limit_rps |-> MaxRps, rate_limit_burst |-> burst,
        connect_timeout_secs |-> 5, idle_timeout_secs |-> 60, read_timeout_secs |-> 30,
        circuit_breaker_threshold |-> threshold,
        circuit_breaker_timeout_secs |-> MaxTimeoutSecs ] :
      udp \in {"", "udp"}, list \in ConfigLists,
      burst \in {MaxBurst}, threshold \in 1..MaxThreshold }

\* the handle_connection tasks under way, marked: the RateLimiter or the
\* CircuitBreakerManager that last admitted the task is no longer the one of the
\* state (the mark is an observer, not code)
MarkStale(tasks) == [s \in 1..Len(tasks) |-> [tasks[s] EXCEPT !.stale = TRUE]]

\* what notify_waiters() makes of a wait_for_config task: one in notified() wakes
notify_waiters(pc) == IF pc = "waiting" THEN "returned" ELSE pc

\* an update that keeps the breakers of the manager it replaces
ReplaceAdmissionKeepsBreakers(cfg) ==
    /\ error_threshold' = cfg.circuit_breaker_threshold
    /\ timeout' = cfg.circuit_breaker_timeout_secs * TicksPerSec
    /\ cb_call' = <<"new", "", "">>
    /\ global_limiter' = NewBucket(cfg.rate_limit_rps, cfg.rate_limit_burst, now)
    /\ per_connection_limiters' = <<>>
    /\ per_connection_limit' = None
    /\ last_cleanup' = now
    /\ rl_call' = <<"new", NoClient>>
    /\ rl_burst' = [c \in Clients \cup {NoClient} |-> <<0, 0>>]
    /\ tcp_sessions' = MarkStale(tcp_sessions)
    /\ UNCHANGED <<breakers, cb_fresh_failures, cb_probe_successes, cb_streak>>

\* update_config(cfg), lines 69-85: a CircuitBreakerManager and a RateLimiter made
\* from cfg replace the ones of the state
ReplaceAdmission(cfg) ==
    /\ breakers' = <<>>
    /\ error_threshold' = cfg.circuit_breaker_threshold
    /\ timeout' = cfg.circuit_breaker_timeout_secs * TicksPerSec
    /\ cb_call' = <<"new", "", "">>
    /\ cb_fresh_failures' = <<>>
    /\ cb_probe_successes' = <<>>
    /\ cb_streak' = <<>>
    /\ global_limiter' = NewBucket(cfg.rate_limit_rps, cfg.rate_limit_burst, now)
    /\ per_connection_limiters' = <<>>
    /\ per_connection_limit' = None
    /\ last_cleanup' = now
    /\ rl_call' = <<"new", NoClient>>
    /\ rl_burst' = [c \in Clients \cup {NoClient} |-> <<0, 0>>]
    /\ tcp_sessions' = MarkStale(tcp_sessions)

\* update_config(cfg), first half: the new CircuitBreakerManager and RateLimiter
\* replace the old ones
UpdateConfigBegin(cfg) ==
    /\ Len(cfg_pending) < MaxUpdaters
    /\ ReplaceAdmission(cfg)
    /\ cfg_pending' = Append(cfg_pending, cfg)
    /\ cfg_call' = <<"update_config", Some(cfg)>>
    /\ UNCHANGED <<now, cb_ret, rl_ret, config, active_connections, connection_counter,
                   draining, cfg_ret, cfg_last, tcp_returned, active_tcp_connections,
                   bucket_vars, balancer_vars, udp_vars, rpc_vars>>

\* an update_config that only sets the first config
UpdateConfigEndOnce(i) ==
    /\ config' = IF IsSome(config) THEN config ELSE Some(cfg_pending[i])
    /\ cfg_last' = Some(cfg_pending[i])
    /\ cfg_pending' = RemoveAt(cfg_pending, i)
    /\ cfg_call' = <<"update_config returns", Some(cfg_pending[i])>>
    /\ wait_pc' = notify_waiters(wait_pc)
    /\ UNCHANGED <<now, active_connections, connection_counter, draining, cfg_ret,
                   tcp_loop, drain_rpc, drain_ret, reload_rpc, breaker_vars, bucket_vars,
                   limiter_vars, balancer_vars, tcp_vars, udp_vars>>

\* update_config(cfg), second half, of the i-th call in flight: the config is
\* written under its lock and the waiters are notified
UpdateConfigEnd(i) ==
    /\ config' = Some(cfg_pending[i])
    /\ cfg_last' = Some(cfg_pending[i])
    /\ cfg_pending' = RemoveAt(cfg_pending, i)
    /\ cfg_call' = <<"update_config returns", Some(cfg_pending[i])>>
    /\ wait_pc' = notify_waiters(wait_pc)
    /\ UNCHANGED <<now, active_connections, connection_counter, draining, cfg_ret,
                   tcp_loop, drain_rpc, drain_ret, reload_rpc, breaker_vars, bucket_vars,
                   limiter_vars, balancer_vars, tcp_vars, udp_vars>>

\* get_config()
GetConfig ==
    /\ cfg_ret' = config
    /\ cfg_call' = <<"get_config", None>>
    /\ UNCHANGED <<now, config, cfg_pending, active_connections, connection_counter,
                   draining, cfg_last, breaker_vars, bucket_vars, limiter_vars,
                   balancer_vars, tcp_vars, udp_vars, rpc_vars>>

\* is_configured()
IsConfigured ==
    /\ cfg_ret' = IsSome(config)
    /\ cfg_call' = <<"is_configured", None>>
    /\ UNCHANGED <<now, config, cfg_pending, active_connections, connection_counter,
                   draining, cfg_last, breaker_vars, bucket_vars, limiter_vars,
                   balancer_vars, tcp_vars, udp_vars, rpc_vars>>

\* the clock advances
StateTick ==
    /\ now < MaxTime
    /\ now' = now + 1
    /\ cfg_call' = <<"tick", None>>
    /\ UNCHANGED <<config, cfg_pending, active_connections, connection_counter,
                   draining, cfg_ret, cfg_last, breaker_vars, bucket_vars, limiter_vars,
                   balancer_vars, tcp_vars, udp_vars, rpc_vars>>

NextConfig ==
    \/ \E cfg \in Configs : UpdateConfigBegin(cfg)
    \/ \E i \in 1..Len(cfg_pending) : UpdateConfigEnd(i)
    \/ GetConfig
    \/ IsConfigured
    \/ StateTick

----------------------------------------------------------------------------
(* config.rs: wait_for_config, and grpc_server.rs: reload_backends.  Each is a *)
(* task whose steps are its calls on the shared state; update_config calls of  *)
(* other tasks run between them.                                               *)

\* wait_for_config: `if !self.is_configured().await`
WaitCheck ==
    /\ wait_pc = "idle"
    /\ wait_pc' = IF IsSome(config) THEN "returned" ELSE "checked"
    /\ UNCHANGED <<now, tcp_loop, drain_rpc, drain_ret, reload_rpc, state_vars, tcp_vars,
                   udp_vars, breaker_vars, bucket_vars, limiter_vars, balancer_vars>>

\* wait_for_config: `self.config_notify.notified().await`; the Notified future
\* exists from here on and only a later notify_waiters() completes it
WaitSubscribe ==
    /\ wait_pc = "checked"
    /\ wait_pc' = "waiting"
    /\ UNCHANGED <<now, tcp_loop, drain_rpc, drain_ret, reload_rpc, state_vars, tcp_vars,
                   udp_vars, breaker_vars, bucket_vars, limiter_vars, balancer_vars>>

\* a config whose backends are those of the list, every other field kept, and
\* one that also falls back to the default algorithm
with_backends_and_defaults(cfg, list) ==
    [cfg EXCEPT !.backends = list, !.algorithm = "round_robin", !.udp_address = ""]

\* reload_backends: `config.backends = backend_list.backends...collect()`
with_backends(cfg, list) == [cfg EXCEPT !.backends = list]

\* the config a ReloadBackends call in flight hands to update_config
ReloadedConfig == with_backends(Unwrap(reload_rpc.prior), reload_rpc.list)

\* reload_backends(list): get_config(), or the error when there is none
ReloadGet(list) ==
    /\ reload_rpc.pc = "idle"
    /\ reload_rpc' = IF IsSome(config)
                     THEN [pc |-> "got", list |-> list, prior |-> config, ret |-> None]
                     ELSE [pc |-> "idle", list |-> list, prior |-> None,
                           ret |-> <<"error", "Proxy not configured">>]
    /\ UNCHANGED <<now, tcp_loop, drain_rpc, drain_ret, wait_pc, state_vars, tcp_vars,
                   udp_vars, breaker_vars, bucket_vars, limiter_vars, balancer_vars>>

\* reload_backends: update_config(config), its first half
ReloadUpdateBegin ==
    /\ reload_rpc.pc = "got"
    /\ ReplaceAdmission(ReloadedConfig)
    /\ reload_rpc' = [reload_rpc EXCEPT !.pc = "updating"]
    /\ cfg_call' = <<"update_config", Some(ReloadedConfig)>>
    /\ UNCHANGED <<now, cb_ret, rl_ret, config, cfg_pending, active_connections,
                   connection_counter, draining, cfg_ret, cfg_last, tcp_returned,
                   active_tcp_connections, tcp_loop, drain_rpc, drain_ret, wait_pc,
                   bucket_vars, balancer_vars, udp_vars>>

\* reload_backends: update_config(config), its second half, and the ReloadAck
ReloadUpdateEnd ==
    /\ reload_rpc.pc = "updating"
    /\ config' = Some(ReloadedConfig)
    /\ cfg_last' = Some(ReloadedConfig)
    /\ cfg_call' = <<"update_config returns", Some(ReloadedConfig)>>
    /\ wait_pc' = notify_waiters(wait_pc)
    /\ reload_rpc' = [reload_rpc EXCEPT !.pc = "idle",
                                        !.ret = <<"ok", Len(reload_rpc.list)>>]
    /\ UNCHANGED <<now, cfg_pending, active_connections, connection_counter, draining,
                   cfg_ret, tcp_loop, drain_rpc, drain_ret, breaker_vars, bucket_vars,
                   limiter_vars, balancer_vars, tcp_vars, udp_vars>>

\* the backend lists ReloadBackends is called with
BackendListRequests ==
    { <<>>,
      <<[address |-> "y", weight |-> 1, healthy |-> TRUE]>>,
      <<[address |-> "x", weight |-> 1, healthy |-> FALSE],
        [address |-> "y", weight |-> 1, healthy |-> TRUE]>> }

\* the configs UpdateConfig is called with beside the reloads: with and without
\* a UDP address
ControlConfigs == {cfg \in Configs : cfg.circuit_breaker_threshold = 1}

NextControl ==
    \/ \E cfg \in ControlConfigs : UpdateConfigBegin(cfg)
    \/ \E i \in 1..Len(cfg_pending) : UpdateConfigEnd(i)
    \/ \E list \in BackendListRequests : ReloadGet(list)
    \/ ReloadUpdateBegin
    \/ ReloadUpdateEnd
    \/ WaitCheck
    \/ WaitSubscribe

----------------------------------------------------------------------------
(* The manager's calls as functions of the breaker map *)

\* allow_request(addr): the map afterwards and the answer
manager_allow_request(m, a, t) ==
    LET e == EntryOrInsert(m, a)
        r == BreakerAllowRequest(e[a], t)
    IN  [m |-> [e EXCEPT ![a] = r.b], ret |-> r.ret]

\* record_success(addr): only a breaker that exists is told
manager_record_success(m, a) ==
    IF a \in DOMAIN m THEN [m EXCEPT ![a] = BreakerRecordSuccess(@)] ELSE m

\* record_failure(addr)
manager_record_failure(m, a, t) ==
    [EntryOrInsert(m, a) EXCEPT ![a] = BreakerRecordFailure(@, t)]

----------------------------------------------------------------------------
(* tcp_proxy.rs: handle_connection.  A task's steps are the calls it makes on *)
(* the shared state, taken in program order; tasks run in parallel.  The     *)
(* monotone counters of MetricsCollector, which no step reads, are left out. *)
(* The tasks run at one instant of the clock: what a step does to the        *)
(* registry, the gauge and the connection counts depends on the clock only   *)
(* through the answers of the limiter and the breaker, and both answers of   *)
(* each are reached at one instant.                                          *)

\* the peers that connect: the socket address and its IP
TcpPeers == {[addr |-> "A", ip |-> "c1"]}

\* ProxyState::unregister_connection that removes nothing
unregister_connection_forgotten(ids, id) == ids

\* ProxyState::unregister_connection: active_connections.remove(&id)
unregister_connection(ids, id) == ids \ {id}

\* the task returns by the path: it leaves the live tasks
Returned(s, path) ==
    /\ tcp_sessions' = RemoveAt(tcp_sessions, s)
    /\ tcp_returned' = path

\* the task goes on, at pc
GoesOn(s, pc) ==
    /\ tcp_sessions' = [tcp_sessions EXCEPT ![s].pc = pc]
    /\ UNCHANGED tcp_returned

\* run, lines 22-25: before each accept the drain flag is read; when it is set
\* the loop is left
TcpLoopCheck ==
    /\ tcp_loop = "check"
    /\ tcp_loop' = IF draining THEN "stopped" ELSE "accept"
    /\ UNCHANGED <<now, drain_rpc, drain_ret, wait_pc, reload_rpc, state_vars, tcp_vars,
                   udp_vars, breaker_vars, bucket_vars, limiter_vars, balancer_vars>>

\* run, lines 27-47, and handle_connection, lines 60-82: the accept returns a
\* connection and its task is spawned; the rate limit check; an admitted
\* connection is counted, registered and gets its ConnectionGuard
TcpAdmit(peer) ==
    LET id == U64Inc(connection_counter)
        task == [client |-> peer.addr, pc |-> "registered", conn_id |-> Some(id),
                 backend |-> None, exit |-> "", stale |-> FALSE,
                 accepted_under |-> config]
    IN  /\ tcp_loop = "accept"
        /\ tcp_loop' = "check"
        /\ U64Less(connection_counter, U64(MaxTcpSessions))
        /\ Len(tcp_sessions) < MaxTcpLive
        /\ AllowRequestCall(peer.addr)
        /\ IF rl_ret'
           THEN /\ active_tcp_connections' = U64Inc(active_tcp_connections)
                /\ connection_counter' = id
                /\ active_connections' = active_connections \cup {id}
                /\ tcp_sessions' = Append(tcp_sessions, task)
                /\ UNCHANGED tcp_returned
           ELSE /\ tcp_returned' = "rate limited"
                /\ UNCHANGED <<active_tcp_connections, connection_counter,
                               active_connections, tcp_sessions>>
        /\ UNCHANGED <<now, config, cfg_pending, draining, cfg_call, cfg_ret, cfg_last,
                       drain_rpc, drain_ret, wait_pc, reload_rpc, breaker_vars, bucket_vars,
                       balancer_vars, udp_vars>>

\* lines 85-87: the backend is selected; with none the task returns and its
\* ConnectionGuard drops
TcpSelect(s, peer) ==
    LET r == select_backend_with_context(backends, algorithm, round_robin_counter,
                                         Some(peer.ip), hash_of)
    IN  /\ tcp_sessions[s].pc = "registered"
        /\ tcp_sessions[s].client = peer.addr
        /\ round_robin_counter' = r.counter
        /\ IF IsSome(r.ret)
           THEN /\ tcp_sessions' = [tcp_sessions EXCEPT ![s].pc = "selected",
                                                        ![s].backend = r.ret]
                /\ UNCHANGED <<active_connections, tcp_returned>>
           ELSE /\ Returned(s, "no healthy backend")
                /\ active_connections' =
                      unregister_connection(active_connections,
                                            Unwrap(tcp_sessions[s].conn_id))
        /\ UNCHANGED <<now, backends, algorithm, hash_of, lb_call, lb_ret, lb_history,
                       lb_complete, lb_selects, lb_inflight, config, cfg_pending,
                       connection_counter, draining, cfg_call, cfg_ret, cfg_last,
                       active_tcp_connections, breaker_vars, bucket_vars, limiter_vars, udp_vars, rpc_vars>>

\* lines 90-108: the circuit breaker is asked; when it refuses the task returns,
\* else the backend's connections are incremented and the LoadBalancerGuard armed
TcpCheckBreaker(s) ==
    LET addr == Unwrap(tcp_sessions[s].backend)
        r == manager_allow_request(breakers, addr, now)
    IN  /\ tcp_sessions[s].pc = "selected"
        /\ breakers' = r.m
        /\ IF r.ret
           THEN /\ backends' = increment_connections(backends, addr)
                /\ tcp_sessions' = [tcp_sessions EXCEPT ![s].pc = "connecting",
                                                        ![s].stale = FALSE]
                /\ UNCHANGED tcp_returned
                /\ UNCHANGED active_connections
           ELSE /\ Returned(s, "circuit open")
                /\ active_connections' =
                      unregister_connection(active_connections,
                                            Unwrap(tcp_sessions[s].conn_id))
                /\ UNCHANGED backends
        /\ UNCHANGED <<now, error_threshold, timeout, cb_call, cb_ret, cb_fresh_failures,
                       cb_probe_successes, cb_streak, algorithm, round_robin_counter, hash_of,
                       lb_call, lb_ret, lb_history, lb_complete, lb_selects, lb_inflight,
                       config, cfg_pending, connection_counter, draining, cfg_call,
                       cfg_ret, cfg_last, active_tcp_connections, bucket_vars,
                       limiter_vars, udp_vars, rpc_vars>>

\* lines 118-126: the connect succeeded within the timeout
TcpConnected(s) ==
    /\ tcp_sessions[s].pc = "connecting"
    /\ breakers' = manager_record_success(breakers, Unwrap(tcp_sessions[s].backend))
    /\ GoesOn(s, "streaming")
    /\ UNCHANGED <<now, error_threshold, timeout, cb_call, cb_ret, cb_fresh_failures,
                   cb_probe_successes, cb_streak, state_vars, active_tcp_connections, bucket_vars,
                   limiter_vars, balancer_vars, udp_vars, rpc_vars>>

\* lines 127-138: the connect failed or timed out; the task returns and both
\* guards drop
TcpConnectFailed(s, path) ==
    LET addr == Unwrap(tcp_sessions[s].backend)
    IN  /\ tcp_sessions[s].pc = "connecting"
        /\ breakers' = manager_record_failure(breakers, addr, now)
        /\ backends' = decrement_connections(backends, addr)
        /\ active_connections' =
              unregister_connection(active_connections, Unwrap(tcp_sessions[s].conn_id))
        /\ Returned(s, path)
        /\ UNCHANGED <<now, error_threshold, timeout, cb_call, cb_ret, cb_fresh_failures,
                       cb_probe_successes, cb_streak, algorithm, round_robin_counter, hash_of,
                       lb_call, lb_ret, lb_history, lb_complete, lb_selects, lb_inflight,
                       config, cfg_pending, connection_counter, draining, cfg_call,
                       cfg_ret, cfg_last, active_tcp_connections, bucket_vars,
                       limiter_vars, udp_vars, rpc_vars>>

\* lines 191-206: a direction of the copy ends with an I/O error
TcpIoError(s) ==
    /\ tcp_sessions[s].pc = "streaming"
    /\ breakers' = manager_record_failure(breakers, Unwrap(tcp_sessions[s].backend), now)
    /\ tcp_sessions' = [tcp_sessions EXCEPT ![s].pc = "closing", ![s].exit = "I/O error"]
    /\ UNCHANGED <<now, error_threshold, timeout, cb_call, cb_ret, cb_fresh_failures,
                   cb_probe_successes, cb_streak, state_vars, tcp_returned,
                   active_tcp_connections, bucket_vars, limiter_vars, balancer_vars, udp_vars, rpc_vars>>

\* lines 209-216, after a clean EOF or after the I/O error: record_success,
\* close_tcp_connection, and both guards drop
TcpClose(s) ==
    LET addr == Unwrap(tcp_sessions[s].backend)
    IN  /\ tcp_sessions[s].pc \in {"streaming", "closing"}
        /\ breakers' = manager_record_success(breakers, addr)
        /\ active_tcp_connections' = U64Dec(active_tcp_connections)
        /\ backends' = decrement_connections(backends, addr)
        /\ active_connections' =
              unregister_connection(active_connections, Unwrap(tcp_sessions[s].conn_id))
        /\ Returned(s, IF tcp_sessions[s].pc = "closing" THEN tcp_sessions[s].exit
                       ELSE "EOF")
        /\ UNCHANGED <<now, error_threshold, timeout, cb_call, cb_ret, cb_fresh_failures,
                       cb_probe_successes, cb_streak, algorithm, round_robin_counter, hash_of,
                       lb_call, lb_ret, lb_history, lb_complete, lb_selects, lb_inflight,
                       config, cfg_pending, connection_counter, draining, cfg_call,
                       cfg_ret, cfg_last, bucket_vars, limiter_vars, udp_vars, rpc_vars>>

NextTcp ==
    \/ TcpLoopCheck
    \/ \E peer \in TcpPeers : TcpAdmit(peer)
    \/ \E s \in 1..Len(tcp_sessions), peer \in TcpPeers : TcpSelect(s, peer)
    \/ \E s \in 1..Len(tcp_sessions) : TcpCheckBreaker(s)
    \/ \E s \in 1..Len(tcp_sessions) : TcpConnected(s)
    \/ \E s \in 1..Len(tcp_sessions), path \in {"connect error", "connect timeout"} :
          TcpConnectFailed(s, path)
    \/ \E s \in 1..Len(tcp_sessions) : TcpIoError(s)
    \/ \E s \in 1..Len(tcp_sessions) : TcpClose(s)

----------------------------------------------------------------------------
(* grpc_server.rs: DrainConnections, and ProxyState::drain_connections     *)
(* (config.rs) which it runs under its timeout.  One call is under way at  *)
(* a time; its steps interleave with the accept loop and the tasks.        *)

\* usize::saturating_sub that goes below zero
saturating_sub_signed(a, b) == a - b

\* usize::saturating_sub
saturating_sub(a, b) == IF a >= b THEN a - b ELSE 0

\* active_connection_count()
active_connection_count == Cardinality(active_connections)

\* grpc_server.rs:119: active_before is read
DrainCall ==
    /\ drain_rpc.pc = "idle"
    /\ drain_rpc' = [pc |-> "called", before |-> active_connection_count,
                     flag |-> draining]
    /\ UNCHANGED <<now, tcp_loop, drain_ret, wait_pc, reload_rpc, state_vars, tcp_vars,
                   udp_vars, breaker_vars, bucket_vars, limiter_vars, balancer_vars>>

\* config.rs:127: the drain flag is set
DrainSetFlag ==
    /\ drain_rpc.pc = "called"
    /\ draining' = TRUE
    /\ drain_rpc' = [drain_rpc EXCEPT !.pc = "polling"]
    /\ UNCHANGED <<now, tcp_loop, drain_ret, wait_pc, reload_rpc, config, cfg_pending,
                   active_connections, connection_counter, cfg_call, cfg_ret, cfg_last,
                   tcp_vars, udp_vars, breaker_vars, bucket_vars, limiter_vars,
                   balancer_vars>>

\* config.rs:130-132: the count is read; at 0 drain_connections returns, else it
\* sleeps 100 ms and reads again
DrainPoll ==
    /\ drain_rpc.pc \in {"polling", "sleeping"}
    /\ drain_rpc' = [drain_rpc EXCEPT
                        !.pc = IF active_connection_count > 0 THEN "sleeping"
                               ELSE "drained"]
    /\ UNCHANGED <<now, tcp_loop, drain_ret, wait_pc, reload_rpc, state_vars, tcp_vars,
                   udp_vars, breaker_vars, bucket_vars, limiter_vars, balancer_vars>>

\* grpc_server.rs:125-127: the timeout elapses while drain_connections sleeps
DrainTimeout ==
    /\ drain_rpc.pc = "sleeping"
    /\ drain_rpc' = [drain_rpc EXCEPT !.pc = "timed out"]
    /\ UNCHANGED <<now, tcp_loop, drain_ret, wait_pc, reload_rpc, state_vars, tcp_vars,
                   udp_vars, breaker_vars, bucket_vars, limiter_vars, balancer_vars>>

\* grpc_server.rs:129-137: active_after is read and the response built
DrainReturn ==
    LET after == active_connection_count
    IN  /\ drain_rpc.pc \in {"drained", "timed out"}
        /\ drain_ret' = Some([success |-> after = 0,
                              drained |-> saturating_sub(drain_rpc.before, after),
                              before |-> drain_rpc.before,
                              after |-> after,
                              timed_out |-> drain_rpc.pc = "timed out"])
        /\ drain_rpc' = [drain_rpc EXCEPT !.pc = "idle"]
        /\ UNCHANGED <<now, tcp_loop, wait_pc, reload_rpc, state_vars, tcp_vars, udp_vars,
                       breaker_vars, bucket_vars, limiter_vars, balancer_vars>>

\* the TCP engine with DrainConnections calls
NextDrain ==
    \/ NextTcp
    \/ DrainCall
    \/ DrainSetFlag
    \/ DrainPoll
    \/ DrainTimeout
    \/ DrainReturn

----------------------------------------------------------------------------
(* udp_proxy.rs.  A packet handler's steps are its operations on the two     *)
(* tables; handlers and the reaper run in parallel.  The handler's code      *)
(* between the session entry and the reverse insert, and the reaper's pass,  *)
(* have no await point, so the clock, which advances by a cleanup interval   *)
(* at a time, stands still while one of them is under way.                   *)

SESSION_TIMEOUT == 60   \* seconds
CLEANUP_INTERVAL == 10  \* seconds

\* the source addresses of the datagrams: two clients and the backend x
UdpPeers == {[addr |-> "A", ip |-> "c1"], [addr |-> "B", ip |-> "c2"],
             [addr |-> "x", ip |-> "x"]}
UdpKeys == {p.addr : p \in UdpPeers}

\* m without its entry for k, as DashMap::remove leaves it
MapRemove(m, k) == [j \in DOMAIN m \ {k} |-> m[j]]

\* m with k mapped to v, as DashMap::insert leaves it
MapInsert(m, k, v) == [j \in DOMAIN m \cup {k} |-> IF j = k THEN v ELSE m[j]]

\* UdpSession::new / update_activity: the fields the tables' upkeep reads
UdpSession(backend, t) == [backend_socket_addr |-> backend, last_activity |-> t]

\* an is_expired that never answers true
is_expired_never(session, limit, t) == FALSE

\* UdpSession::is_expired(timeout): last_activity.elapsed() > timeout
is_expired(session, limit, t) == t - session.last_activity > limit

\* the reaper is between two passes
ReaperIdle == udp_expired = {} /\ udp_removed = None

\* lines 148-164: the peer is in the reverse table; the session of the client it
\* maps to, if there is one, records the datagram
UdpReply(peer) ==
    LET key == udp_reverse[peer.addr]
    IN  /\ ~draining
        /\ peer.addr \in DOMAIN udp_reverse
        /\ udp_sessions' =
              IF key \in DOMAIN udp_sessions
              THEN [udp_sessions EXCEPT ![key].last_activity = now]
              ELSE udp_sessions
        /\ udp_call' = <<IF key \in DOMAIN udp_sessions THEN "reply" ELSE "reply dropped",
                         peer.addr>>
        /\ UNCHANGED <<now, udp_reverse, udp_handlers, udp_expired, udp_removed,
                       udp_tick_due, state_vars, tcp_vars, rpc_vars, breaker_vars, bucket_vars,
                       limiter_vars, balancer_vars>>

\* lines 177-178: backend.address.parse::<SocketAddr>(); an address that names
\* a host is no socket address
Hostnames == {"host"}
parse(address) == IF address \in Hostnames THEN None ELSE Some(address)

\* lines 165-190: the peer is not in the reverse table; its session is looked up
\* or created with a selected backend, and records the datagram.  With no
\* healthy backend the first expect panics and the task ends with nothing
\* changed; with a selected backend whose address does not parse the second
\* expect panics, after the selection.
UdpFromClient(peer) ==
    LET key == peer.addr
        r == select_backend_with_context(backends, algorithm, round_robin_counter,
                                         Some(peer.ip), hash_of)
        known == key \in DOMAIN udp_sessions
        parsed == IF IsSome(r.ret) THEN parse(Unwrap(r.ret)) ELSE None
        backend == IF known THEN udp_sessions[key].backend_socket_addr ELSE Unwrap(parsed)
    IN  /\ ~draining
        /\ peer.addr \notin DOMAIN udp_reverse
        /\ Len(udp_handlers) < MaxUdpHandlers
        /\ IF known \/ IsSome(parsed)
           THEN /\ udp_sessions' = MapInsert(udp_sessions, key, UdpSession(backend, now))
                /\ udp_handlers' = Append(udp_handlers,
                                          [client_key |-> key,
                                           backend_socket_addr |-> backend])
                /\ udp_call' = <<IF known THEN "client" ELSE "new client", key>>
           ELSE /\ udp_call' = <<"panic", key>>
                /\ UNCHANGED <<udp_sessions, udp_handlers>>
        /\ round_robin_counter' = IF known THEN round_robin_counter ELSE r.counter
        /\ UNCHANGED <<now, backends, algorithm, hash_of, lb_call, lb_ret, lb_history,
                       lb_complete, lb_selects, lb_inflight, udp_reverse, udp_expired,
                       udp_removed, udp_tick_due, state_vars, tcp_vars, rpc_vars, breaker_vars,
                       bucket_vars, limiter_vars>>

\* line 193: reverse_sessions.insert(backend_socket_addr, client_key), by the
\* h-th handler under way, which then sends the datagram on
UdpInsertReverse(h) ==
    /\ udp_reverse' = MapInsert(udp_reverse, udp_handlers[h].backend_socket_addr,
                                udp_handlers[h].client_key)
    /\ udp_handlers' = RemoveAt(udp_handlers, h)
    /\ udp_call' = <<"forwarded", udp_handlers[h].client_key>>
    /\ UNCHANGED <<now, udp_sessions, udp_expired, udp_removed, udp_tick_due,
                   state_vars, tcp_vars, rpc_vars, breaker_vars, bucket_vars, limiter_vars,
                   balancer_vars>>

\* lines 93-111: the interval has ticked; the reaper collects the keys of the
\* expired sessions
ReaperScan ==
    /\ udp_tick_due
    /\ ReaperIdle
    /\ udp_expired' = {k \in DOMAIN udp_sessions :
                          is_expired(udp_sessions[k], SESSION_TIMEOUT * TicksPerSec, now)}
    /\ udp_tick_due' = FALSE
    /\ udp_call' = <<"scan", "">>
    /\ UNCHANGED <<now, udp_sessions, udp_reverse, udp_handlers, udp_removed,
                   state_vars, tcp_vars, rpc_vars, breaker_vars, bucket_vars, limiter_vars,
                   balancer_vars>>

\* lines 114-115: sessions.remove(&key) for a collected key, whatever has become
\* of the session since the scan
ReaperRemoveForward(key) ==
    /\ key \in udp_expired
    /\ udp_removed = None
    /\ udp_expired' = udp_expired \ {key}
    /\ IF key \in DOMAIN udp_sessions
       THEN /\ udp_sessions' = MapRemove(udp_sessions, key)
            /\ udp_removed' = Some(udp_sessions[key].backend_socket_addr)
       ELSE UNCHANGED <<udp_sessions, udp_removed>>
    /\ udp_call' = <<"removed", key>>
    /\ UNCHANGED <<now, udp_reverse, udp_handlers, udp_tick_due, state_vars, tcp_vars, rpc_vars,
                   breaker_vars, bucket_vars, limiter_vars, balancer_vars>>

\* line 116: reverse_sessions.remove(&session.backend_socket_addr)
ReaperRemoveReverse ==
    /\ udp_removed # None
    /\ udp_reverse' = MapRemove(udp_reverse, Unwrap(udp_removed))
    /\ udp_removed' = None
    /\ udp_call' = <<"reaped", Unwrap(udp_removed)>>
    /\ UNCHANGED <<now, udp_sessions, udp_handlers, udp_expired, udp_tick_due,
                   state_vars, tcp_vars, rpc_vars, breaker_vars, bucket_vars, limiter_vars,
                   balancer_vars>>

\* a cleanup interval passes and the reaper's interval ticks
UdpTick ==
    /\ now < MaxUdpIntervals * CLEANUP_INTERVAL * TicksPerSec
    /\ udp_handlers = <<>>
    /\ ReaperIdle
    /\ now' = now + CLEANUP_INTERVAL * TicksPerSec
    /\ udp_tick_due' = TRUE
    /\ udp_call' = <<"tick", "">>
    /\ UNCHANGED <<udp_sessions, udp_reverse, udp_handlers, udp_expired, udp_removed,
                   state_vars, tcp_vars, rpc_vars, breaker_vars, bucket_vars, limiter_vars,
                   balancer_vars>>

NextUdp ==
    \/ \E peer \in UdpPeers : UdpReply(peer)
    \/ \E peer \in UdpPeers : UdpFromClient(peer)
    \/ \E h \in 1..Len(udp_handlers) : UdpInsertReverse(h)
    \/ ReaperScan
    \/ \E key \in UdpKeys : ReaperRemoveForward(key)
    \/ ReaperRemoveReverse
    \/ UdpTick

-----
(* The specifications.  Each starts its component as its constructor leaves  *)
(* it, for every parameter within the bounds, and the components it does not *)
(* run as ProxyState::new constructs them (config.rs:52-53).                 *)

\* CircuitBreakerManager::new(error_threshold, timeout_secs)
InitBreaker ==
    /\ now = 0
    /\ breakers = <<>>
    /\ error_threshold \in 0..MaxThreshold
    /\ timeout \in {s * TicksPerSec : s \in 0..MaxTimeoutSecs}
    /\ cb_call = <<"new", "", "">>
    /\ cb_ret = FALSE
    /\ cb_fresh_failures = <<>>
    /\ cb_probe_successes = <<>>
    /\ cb_streak = <<>>
    /\ bucket = NewBucket(0, 0, 0)
    /\ bucket_call = <<"new", 0, 0, 0>>
    /\ bucket_ret = <<>>
    /\ global_limiter = NewBucket(1000, 100, 0)
    /\ per_connection_limiters = <<>>
    /\ per_connection_limit = None
    /\ last_cleanup = 0
    /\ rl_call = <<"new", NoClient>>
    /\ rl_ret = FALSE
    /\ rl_burst = [c \in Clients \cup {NoClient} |-> <<0, 0>>]
    /\ config = None
    /\ cfg_pending = <<>>
    /\ active_connections = {}
    /\ connection_counter = U64(0)
    /\ draining = FALSE
    /\ cfg_call = <<"new", None>>
    /\ cfg_ret = None
    /\ cfg_last = None
    /\ tcp_sessions = <<>>
    /\ tcp_returned = ""
    /\ active_tcp_connections = U64(0)
    /\ udp_sessions = <<>>
    /\ udp_reverse = <<>>
    /\ udp_handlers = <<>>
    /\ udp_expired = {}
    /\ udp_removed = None
    /\ udp_tick_due = FALSE
    /\ udp_call = <<"new", "">>
    /\ tcp_loop = "check"
    /\ drain_rpc = [pc |-> "idle", before |-> 0, flag |-> FALSE]
    /\ drain_ret = None
    /\ wait_pc = "idle"
    /\ reload_rpc = [pc |-> "idle", list |-> <<>>, prior |-> None, ret |-> None]
    /\ backends = <<>>
    /\ algorithm = "RoundRobin"
    /\ round_robin_counter = U64(0)
    /\ hash_of = [c \in Contexts |-> 0]
    /\ lb_call = <<"new", None>>
    /\ lb_ret = None
    /\ lb_history = <<>>
    /\ lb_complete = TRUE
    /\ lb_selects = 0
    /\ lb_inflight = <<>>

SpecBreaker == InitBreaker /\ [][NextBreaker]_vars

\* TokenBucket::new(requests_per_second, burst)
InitBucket ==
    /\ now = 0
    /\ \E rps \in 0..MaxRps, burst \in 0..MaxBurst : bucket = NewBucket(rps, burst, 0)
    /\ bucket_call = <<"new", 0, 0, 0>>
    /\ bucket_ret = <<>>
    /\ breakers = <<>>
    /\ error_threshold = 5
    /\ timeout = 30 * TicksPerSec
    /\ cb_call = <<"new", "", "">>
    /\ cb_ret = FALSE
    /\ cb_fresh_failures = <<>>
    /\ cb_probe_successes = <<>>
    /\ cb_streak = <<>>
    /\ global_limiter = NewBucket(1000, 100, 0)
    /\ per_connection_limiters = <<>>
    /\ per_connection_limit = None
    /\ last_cleanup = 0
    /\ rl_call = <<"new", NoClient>>
    /\ rl_ret = FALSE
    /\ rl_burst = [c \in Clients \cup {NoClient} |-> <<0, 0>>]
    /\ config = None
    /\ cfg_pending = <<>>
    /\ active_connections = {}
    /\ connection_counter = U64(0)
    /\ draining = FALSE
    /\ cfg_call = <<"new", None>>
    /\ cfg_ret = None
    /\ cfg_last = None
    /\ tcp_sessions = <<>>
    /\ tcp_returned = ""
    /\ active_tcp_connections = U64(0)
    /\ udp_sessions = <<>>
    /\ udp_reverse = <<>>
    /\ udp_handlers = <<>>
    /\ udp_expired = {}
    /\ udp_removed = None
    /\ udp_tick_due = FALSE
    /\ udp_call = <<"new", "">>
    /\ tcp_loop = "check"
    /\ drain_rpc = [pc |-> "idle", before |-> 0, flag |-> FALSE]
    /\ drain_ret = None
    /\ wait_pc = "idle"
    /\ reload_rpc = [pc |-> "idle", list |-> <<>>, prior |-> None, ret |-> None]
    /\ backends = <<>>
    /\ algorithm = "RoundRobin"
    /\ round_robin_counter = U64(0)
    /\ hash_of = [c \in Contexts |-> 0]
    /\ lb_call = <<"new", None>>
    /\ lb_ret = None
    /\ lb_history = <<>>
    /\ lb_complete = TRUE
    /\ lb_selects = 0
    /\ lb_inflight = <<>>

SpecBucket == InitBucket /\ [][NextBucket]_vars

\* RateLimiter::new(global_rps, global_burst), with or without
\* with_per_connection_limit(rps, burst)
InitLimiter ==
    /\ now = 0
    /\ \E rps \in 0..MaxRps, burst \in {0, 1, MaxBurst + 2} :
          global_limiter = NewBucket(rps, burst, 0)
    /\ per_connection_limiters = <<>>
    /\ per_connection_limit \in
          {None} \cup {Some(<<rps, burst>>) : rps \in 0..MaxRps, burst \in 0..MaxBurst}
    /\ last_cleanup = 0
    /\ rl_call = <<"new", NoClient>>
    /\ rl_ret = FALSE
    /\ rl_burst = [c \in Clients \cup {NoClient} |-> <<0, 0>>]
    /\ config = None
    /\ cfg_pending = <<>>
    /\ active_connections = {}
    /\ connection_counter = U64(0)
    /\ draining = FALSE
    /\ cfg_call = <<"new", None>>
    /\ cfg_ret = None
    /\ cfg_last = None
    /\ tcp_sessions = <<>>
    /\ tcp_returned = ""
    /\ active_tcp_connections = U64(0)
    /\ udp_sessions = <<>>
    /\ udp_reverse = <<>>
    /\ udp_handlers = <<>>
    /\ udp_expired = {}
    /\ udp_removed = None
    /\ udp_tick_due = FALSE
    /\ udp_call = <<"new", "">>
    /\ tcp_loop = "check"
    /\ drain_rpc = [pc |-> "idle", before |-> 0, flag |-> FALSE]
    /\ drain_ret = None
    /\ wait_pc = "idle"
    /\ reload_rpc = [pc |-> "idle", list |-> <<>>, prior |-> None, ret |-> None]
    /\ breakers = <<>>
    /\ error_threshold = 5
    /\ timeout = 30 * TicksPerSec
    /\ cb_call = <<"new", "", "">>
    /\ cb_ret = FALSE
    /\ cb_fresh_failures = <<>>
    /\ cb_probe_successes = <<>>
    /\ cb_streak = <<>>
    /\ bucket = NewBucket(0, 0, 0)
    /\ bucket_call = <<"new", 0, 0, 0>>
    /\ bucket_ret = <<>>
    /\ backends = <<>>
    /\ algorithm = "RoundRobin"
    /\ round_robin_counter = U64(0)
    /\ hash_of = [c \in Contexts |-> 0]
    /\ lb_call = <<"new", None>>
    /\ lb_ret = None
    /\ lb_history = <<>>
    /\ lb_complete = TRUE
    /\ lb_selects = 0
    /\ lb_inflight = <<>>

SpecLimiter == InitLimiter /\ [][NextLimiter]_vars

\* the counter of a balancer that has made no selection, and of one that has made
\* 2^31 - 2 = 0x7FFFFFFE of them
CounterStarts == {U64(0), <<Limb - 2, Limb \div 2 - 1, 0, 0>>}

\* LoadBalancer::new(backends, algorithm); the counter is 0 at construction, and a
\* run may also start from a balancer that has been selecting for a while (least
\* connections never touches the counter).  The
\* hash is some fixed function of the context, and only consistent_hash reads it;
\* only weighted_round_robin reads the weights, the other algorithms get weight 1.
InitBalancer ==
    /\ now = 0
    /\ algorithm \in Algorithms
    /\ \E list \in (IF algorithm = "WeightedRoundRobin" THEN BackendLists ELSE ReloadLists) :
          backends = [i \in 1..Len(list) |-> WithStats(list[i])]
    /\ round_robin_counter \in
          IF algorithm = "LeastConnections" THEN {U64(0)} ELSE CounterStarts
    /\ hash_of \in IF algorithm = "ConsistentHash"
                   THEN [Contexts -> 0..MaxHash]
                   ELSE {[c \in Contexts |-> 0]}
    /\ lb_call = <<"new", None>>
    /\ lb_ret = None
    /\ lb_history = <<>>
    /\ lb_complete = (round_robin_counter = U64(0))
    /\ lb_selects = 0
    /\ lb_inflight = <<>>
    /\ breakers = <<>>
    /\ error_threshold = 5
    /\ timeout = 30 * TicksPerSec
    /\ cb_call = <<"new", "", "">>
    /\ cb_ret = FALSE
    /\ cb_fresh_failures = <<>>
    /\ cb_probe_successes = <<>>
    /\ cb_streak = <<>>
    /\ bucket = NewBucket(0, 0, 0)
    /\ bucket_call = <<"new", 0, 0, 0>>
    /\ bucket_ret = <<>>
    /\ global_limiter = NewBucket(1000, 100, 0)
    /\ per_connection_limiters = <<>>
    /\ per_connection_limit = None
    /\ last_cleanup = 0
    /\ rl_call = <<"new", NoClient>>
    /\ rl_ret = FALSE
    /\ rl_burst = [c \in Clients \cup {NoClient} |-> <<0, 0>>]
    /\ config = None
    /\ cfg_pending = <<>>
    /\ active_connections = {}
    /\ connection_counter = U64(0)
    /\ draining = FALSE
    /\ cfg_call = <<"new", None>>
    /\ cfg_ret = None
    /\ cfg_last = None
    /\ tcp_sessions = <<>>
    /\ tcp_returned = ""
    /\ active_tcp_connections = U64(0)
    /\ udp_sessions = <<>>
    /\ udp_reverse = <<>>
    /\ udp_handlers = <<>>
    /\ udp_expired = {}
    /\ udp_removed = None
    /\ udp_tick_due = FALSE
    /\ udp_call = <<"new", "">>
    /\ tcp_loop = "check"
    /\ drain_rpc = [pc |-> "idle", before |-> 0, flag |-> FALSE]
    /\ drain_ret = None
    /\ wait_pc = "idle"
    /\ reload_rpc = [pc |-> "idle", list |-> <<>>, prior |-> None, ret |-> None]

SpecBalancer == InitBalancer /\ [][NextBalancer]_vars

\* LoadBalancer::new as the TCP engine constructs it, counting its sessions
InitConnections ==
    /\ now = 0
    /\ algorithm = "LeastConnections"
    /\ \E list \in ReloadLists : backends = [i \in 1..Len(list) |-> WithStats(list[i])]
    /\ round_robin_counter = U64(0)
    /\ hash_of = [c \in Contexts |-> 0]
    /\ lb_call = <<"new", None>>
    /\ lb_ret = None
    /\ lb_history = <<>>
    /\ lb_complete = TRUE
    /\ lb_selects = 0
    /\ lb_inflight = <<>>
    /\ breakers = <<>>
    /\ error_threshold = 5
    /\ timeout = 30 * TicksPerSec
    /\ cb_call = <<"new", "", "">>
    /\ cb_ret = FALSE
    /\ cb_fresh_failures = <<>>
    /\ cb_probe_successes = <<>>
    /\ cb_streak = <<>>
    /\ bucket = NewBucket(0, 0, 0)
    /\ bucket_call = <<"new", 0, 0, 0>>
    /\ bucket_ret = <<>>
    /\ global_limiter = NewBucket(1000, 100, 0)
    /\ per_connection_limiters = <<>>
    /\ per_connection_limit = None
    /\ last_cleanup = 0
    /\ rl_call = <<"new", NoClient>>
    /\ rl_ret = FALSE
    /\ rl_burst = [c \in Clients \cup {NoClient} |-> <<0, 0>>]
    /\ config = None
    /\ cfg_pending = <<>>
    /\ active_connections = {}
    /\ connection_counter = U64(0)
    /\ draining = FALSE
    /\ cfg_call = <<"new", None>>
    /\ cfg_ret = None
    /\ cfg_last = None
    /\ tcp_sessions = <<>>
    /\ tcp_returned = ""
    /\ active_tcp_connections = U64(0)
    /\ udp_sessions = <<>>
    /\ udp_reverse = <<>>
    /\ udp_handlers = <<>>
    /\ udp_expired = {}
    /\ udp_removed = None
    /\ udp_tick_due = FALSE
    /\ udp_call = <<"new", "">>
    /\ tcp_loop = "check"
    /\ drain_rpc = [pc |-> "idle", before |-> 0, flag |-> FALSE]
    /\ drain_ret = None
    /\ wait_pc = "idle"
    /\ reload_rpc = [pc |-> "idle", list |-> <<>>, prior |-> None, ret |-> None]

SpecConnections == InitConnections /\ [][NextConnections]_vars

\* ProxyState::new()
InitConfig ==
    /\ now = 0
    /\ algorithm = "RoundRobin"
    /\ backends = <<>>
    /\ round_robin_counter = U64(0)
    /\ hash_of = [c \in Contexts |-> 0]
    /\ lb_call = <<"new", None>>
    /\ lb_ret = None
    /\ lb_history = <<>>
    /\ lb_complete = TRUE
    /\ lb_selects = 0
    /\ lb_inflight = <<>>
    /\ breakers = <<>>
    /\ error_threshold = 5
    /\ timeout = 30 * TicksPerSec
    /\ cb_call = <<"new", "", "">>
    /\ cb_ret = FALSE
    /\ cb_fresh_failures = <<>>
    /\ cb_probe_successes = <<>>
    /\ cb_streak = <<>>
    /\ bucket = NewBucket(0, 0, 0)
    /\ bucket_call = <<"new", 0, 0, 0>>
    /\ bucket_ret = <<>>
    /\ global_limiter = NewBucket(1000, 100, 0)
    /\ per_connection_limiters = <<>>
    /\ per_connection_limit = None
    /\ last_cleanup = 0
    /\ rl_call = <<"new", NoClient>>
    /\ rl_ret = FALSE
    /\ rl_burst = [c \in Clients \cup {NoClient} |-> <<0, 0>>]
    /\ config = None
    /\ cfg_pending = <<>>
    /\ active_connections = {}
    /\ connection_counter = U64(0)
    /\ draining = FALSE
    /\ cfg_call = <<"new", None>>
    /\ cfg_ret = None
    /\ cfg_last = None
    /\ tcp_sessions = <<>>
    /\ tcp_returned = ""
    /\ active_tcp_connections = U64(0)
    /\ udp_sessions = <<>>
    /\ udp_reverse = <<>>
    /\ udp_handlers = <<>>
    /\ udp_expired = {}
    /\ udp_removed = None
    /\ udp_tick_due = FALSE
    /\ udp_call = <<"new", "">>
    /\ tcp_loop = "check"
    /\ drain_rpc = [pc |-> "idle", before |-> 0, flag |-> FALSE]
    /\ drain_ret = None
    /\ wait_pc = "idle"
    /\ reload_rpc = [pc |-> "idle", list |-> <<>>, prior |-> None, ret |-> None]

SpecConfig == InitConfig /\ [][NextConfig]_vars


\* the control plane's calls on a state that starts without a config
InitControl ==
    /\ now = 0
    /\ algorithm = "RoundRobin"
    /\ backends = <<>>
    /\ round_robin_counter = U64(0)
    /\ hash_of = [c \in Contexts |-> 0]
    /\ lb_call = <<"new", None>>
    /\ lb_ret = None
    /\ lb_history = <<>>
    /\ lb_complete = TRUE
    /\ lb_selects = 0
    /\ lb_inflight = <<>>
    /\ breakers = <<>>
    /\ error_threshold = 5
    /\ timeout = 30 * TicksPerSec
    /\ cb_call = <<"new", "", "">>
    /\ cb_ret = FALSE
    /\ cb_fresh_failures = <<>>
    /\ cb_probe_successes = <<>>
    /\ cb_streak = <<>>
    /\ bucket = NewBucket(0, 0, 0)
    /\ bucket_call = <<"new", 0, 0, 0>>
    /\ bucket_ret = <<>>
    /\ global_limiter = NewBucket(1000, 100, 0)
    /\ per_connection_limiters = <<>>
    /\ per_connection_limit = None
    /\ last_cleanup = 0
    /\ rl_call = <<"new", NoClient>>
    /\ rl_ret = FALSE
    /\ rl_burst = [c \in Clients \cup {NoClient} |-> <<0, 0>>]
    /\ config = None
    /\ cfg_pending = <<>>
    /\ active_connections = {}
    /\ connection_counter = U64(0)
    /\ draining = FALSE
    /\ cfg_call = <<"new", None>>
    /\ cfg_ret = None
    /\ cfg_last = None
    /\ tcp_sessions = <<>>
    /\ tcp_returned = ""
    /\ active_tcp_connections = U64(0)
    /\ udp_sessions = <<>>
    /\ udp_reverse = <<>>
    /\ udp_handlers = <<>>
    /\ udp_expired = {}
    /\ udp_removed = None
    /\ udp_tick_due = FALSE
    /\ udp_call = <<"new", "">>
    /\ tcp_loop = "check"
    /\ drain_rpc = [pc |-> "idle", before |-> 0, flag |-> FALSE]
    /\ drain_ret = None
    /\ wait_pc = "idle"
    /\ reload_rpc = [pc |-> "idle", list |-> <<>>, prior |-> None, ret |-> None]

SpecControl == InitControl /\ [][NextControl]_vars

\* every task that can take a step takes it in the end
FairSpecControl ==
    /\ SpecControl
    /\ WF_vars(WaitCheck)
    /\ WF_vars(WaitSubscribe)
    /\ WF_vars(\E i \in 1..Len(cfg_pending) : UpdateConfigEnd(i))
    /\ WF_vars(ReloadUpdateBegin)
    /\ WF_vars(ReloadUpdateEnd)

\* the configs the TCP engine is started with
TcpLists == {l \in ReloadLists : Len(l) <= 2}
TcpConfigs ==
    { [cfg EXCEPT !.backends = list, !.algorithm = alg] :
      cfg \in {c \in Configs : c.udp_address = ""}, list \in TcpLists,
      alg \in {"round_robin", "least_connections"} }

\* tcp_proxy::run after ProxyState::update_config(cfg): the engine's LoadBalancer
\* is built from the config, and no connection has been accepted
InitTcp ==
    /\ now = 0
    /\ round_robin_counter = U64(0)
    /\ hash_of = [c \in Contexts |-> 0]
    /\ lb_call = <<"new", None>>
    /\ lb_ret = None
    /\ lb_history = <<>>
    /\ lb_complete = TRUE
    /\ lb_selects = 0
    /\ lb_inflight = <<>>
    /\ breakers = <<>>
    /\ cb_call = <<"new", "", "">>
    /\ cb_ret = FALSE
    /\ cb_fresh_failures = <<>>
    /\ cb_probe_successes = <<>>
    /\ cb_streak = <<>>
    /\ bucket = NewBucket(0, 0, 0)
    /\ bucket_call = <<"new", 0, 0, 0>>
    /\ bucket_ret = <<>>
    /\ per_connection_limiters = <<>>
    /\ per_connection_limit = None
    /\ last_cleanup = 0
    /\ rl_call = <<"new", NoClient>>
    /\ rl_ret = FALSE
    /\ rl_burst = [c \in Clients \cup {NoClient} |-> <<0, 0>>]
    /\ \E cfg \in TcpConfigs :
          /\ config = Some(cfg)
          /\ cfg_last = Some(cfg)
          /\ error_threshold = cfg.circuit_breaker_threshold
          /\ timeout = cfg.circuit_breaker_timeout_secs * TicksPerSec
          /\ global_limiter = NewBucket(cfg.rate_limit_rps, cfg.rate_limit_burst, 0)
          /\ algorithm = from_str(cfg.algorithm)
          /\ backends = [i \in 1..Len(cfg.backends) |-> WithStats(cfg.backends[i])]
    /\ cfg_pending = <<>>
    /\ active_connections = {}
    /\ connection_counter = U64(0)
    /\ draining = FALSE
    /\ cfg_call = <<"new", None>>
    /\ cfg_ret = None
    /\ tcp_sessions = <<>>
    /\ tcp_returned = ""
    /\ active_tcp_connections = U64(0)
    /\ udp_sessions = <<>>
    /\ udp_reverse = <<>>
    /\ udp_handlers = <<>>
    /\ udp_expired = {}
    /\ udp_removed = None
    /\ udp_tick_due = FALSE
    /\ udp_call = <<"new", "">>
    /\ tcp_loop = "check"
    /\ drain_rpc = [pc |-> "idle", before |-> 0, flag |-> FALSE]
    /\ drain_ret = None
    /\ wait_pc = "idle"
    /\ reload_rpc = [pc |-> "idle", list |-> <<>>, prior |-> None, ret |-> None]

SpecTcp == InitTcp /\ [][NextTcp]_vars

\* the configs the engine is started with when DrainConnections is called
DrainConfigs ==
    {cfg \in TcpConfigs : /\ cfg.backends = <<[address |-> "x", weight |-> 1,
                                                healthy |-> TRUE]>>
                          /\ cfg.algorithm = "round_robin"
                          /\ cfg.circuit_breaker_threshold = 1}

\* tcp_proxy::run after ProxyState::update_config(cfg), with no DrainConnections
\* call made yet
InitDrain ==
    /\ now = 0
    /\ round_robin_counter = U64(0)
    /\ hash_of = [c \in Contexts |-> 0]
    /\ lb_call = <<"new", None>>
    /\ lb_ret = None
    /\ lb_history = <<>>
    /\ lb_complete = TRUE
    /\ lb_selects = 0
    /\ lb_inflight = <<>>
    /\ breakers = <<>>
    /\ cb_call = <<"new", "", "">>
    /\ cb_ret = FALSE
    /\ cb_fresh_failures = <<>>
    /\ cb_probe_successes = <<>>
    /\ cb_streak = <<>>
    /\ bucket = NewBucket(0, 0, 0)
    /\ bucket_call = <<"new", 0, 0, 0>>
    /\ bucket_ret = <<>>
    /\ per_connection_limiters = <<>>
    /\ per_connection_limit = None
    /\ last_cleanup = 0
    /\ rl_call = <<"new", NoClient>>
    /\ rl_ret = FALSE
    /\ rl_burst = [c \in Clients \cup {NoClient} |-> <<0, 0>>]
    /\ \E cfg \in DrainConfigs :
          /\ config = Some(cfg)
          /\ cfg_last = Some(cfg)
          /\ error_threshold = cfg.circuit_breaker_threshold
          /\ timeout = cfg.circuit_breaker_timeout_secs * TicksPerSec
          /\ global_limiter = NewBucket(cfg.rate_limit_rps, cfg.rate_limit_burst, 0)
          /\ algorithm = from_str(cfg.algorithm)
          /\ backends = [i \in 1..Len(cfg.backends) |-> WithStats(cfg.backends[i])]
    /\ cfg_pending = <<>>
    /\ active_connections = {}
    /\ connection_counter = U64(0)
    /\ draining = FALSE
    /\ cfg_call = <<"new", None>>
    /\ cfg_ret = None
    /\ tcp_sessions = <<>>
    /\ tcp_returned = ""
    /\ active_tcp_connections = U64(0)
    /\ udp_sessions = <<>>
    /\ udp_reverse = <<>>
    /\ udp_handlers = <<>>
    /\ udp_expired = {}
    /\ udp_removed = None
    /\ udp_tick_due = FALSE
    /\ udp_call = <<"new", "">>
    /\ tcp_loop = "check"
    /\ drain_rpc = [pc |-> "idle", before |-> 0, flag |-> FALSE]
    /\ drain_ret = None
    /\ wait_pc = "idle"
    /\ reload_rpc = [pc |-> "idle", list |-> <<>>, prior |-> None, ret |-> None]

SpecDrain == InitDrain /\ [][NextDrain]_vars

\* the configs UpdateConfig is called with while the TCP engine runs: the one
\* backend of the start config is replaced by another, under another algorithm
LiveConfigs ==
    { [cfg EXCEPT !.backends = <<[address |-> "y", weight |-> 1, healthy |-> TRUE]>>,
                  !.algorithm = "least_connections"] : cfg \in DrainConfigs }

\* the lists ReloadBackends is called with while the TCP engine runs
LiveLists == { <<[address |-> "y", weight |-> 1, healthy |-> TRUE]>> }

\* the control plane has made no call since the engine started
ControlIdle ==
    /\ config \in {Some(c) : c \in DrainConfigs}
    /\ cfg_pending = <<>>
    /\ reload_rpc.pc = "idle"

\* the TCP engine with one call of the control plane, an UpdateConfig or a
\* ReloadBackends, made while the stored config is the one the engine started with
NextLive ==
    \/ NextTcp
    \/ \E cfg \in LiveConfigs : ControlIdle /\ UpdateConfigBegin(cfg)
    \/ \E i \in 1..Len(cfg_pending) : UpdateConfigEnd(i)
    \/ \E list \in LiveLists : ControlIdle /\ ReloadGet(list)
    \/ ReloadUpdateBegin
    \/ ReloadUpdateEnd

\* tcp_proxy::run after ProxyState::update_config(cfg), the control plane idle
InitLive ==
    /\ now = 0
    /\ round_robin_counter = U64(0)
    /\ hash_of = [c \in Contexts |-> 0]
    /\ lb_call = <<"new", None>>
    /\ lb_ret = None
    /\ lb_history = <<>>
    /\ lb_complete = TRUE
    /\ lb_selects = 0
    /\ lb_inflight = <<>>
    /\ breakers = <<>>
    /\ cb_call = <<"new", "", "">>
    /\ cb_ret = FALSE
    /\ cb_fresh_failures = <<>>
    /\ cb_probe_successes = <<>>
    /\ cb_streak = <<>>
    /\ bucket = NewBucket(0, 0, 0)
    /\ bucket_call = <<"new", 0, 0, 0>>
    /\ bucket_ret = <<>>
    /\ per_connection_limiters = <<>>
    /\ per_connection_limit = None
    /\ last_cleanup = 0
    /\ rl_call = <<"new", NoClient>>
    /\ rl_ret = FALSE
    /\ rl_burst = [c \in Clients \cup {NoClient} |-> <<0, 0>>]
    /\ \E cfg \in DrainConfigs :
          /\ config = Some(cfg)
          /\ cfg_last = Some(cfg)
          /\ error_threshold = cfg.circuit_breaker_threshold
          /\ timeout = cfg.circuit_breaker_timeout_secs * TicksPerSec
          /\ global_limiter = NewBucket(cfg.rate_limit_rps, cfg.rate_limit_burst, 0)
          /\ algorithm = from_str(cfg.algorithm)
          /\ backends = [i \in 1..Len(cfg.backends) |-> WithStats(cfg.backends[i])]
    /\ cfg_pending = <<>>
    /\ active_connections = {}
    /\ connection_counter = U64(0)
    /\ draining = FALSE
    /\ cfg_call = <<"new", None>>
    /\ cfg_ret = None
    /\ tcp_sessions = <<>>
    /\ tcp_returned = ""
    /\ active_tcp_connections = U64(0)
    /\ udp_sessions = <<>>
    /\ udp_reverse = <<>>
    /\ udp_handlers = <<>>
    /\ udp_expired = {}
    /\ udp_removed = None
    /\ udp_tick_due = FALSE
    /\ udp_call = <<"new", "">>
    /\ tcp_loop = "check"
    /\ drain_rpc = [pc |-> "idle", before |-> 0, flag |-> FALSE]
    /\ drain_ret = None
    /\ wait_pc = "idle"
    /\ reload_rpc = [pc |-> "idle", list |-> <<>>, prior |-> None, ret |-> None]

SpecLive == InitLive /\ [][NextLive]_vars

\* the configs the UDP engine is started with
UdpLists == {l \in ReloadLists : Len(l) <= 1}
UdpConfigs ==
    { [cfg EXCEPT !.backends = list, !.algorithm = "least_connections"] :
      cfg \in {c \in Configs : c.udp_address # "" /\ c.circuit_breaker_threshold = 1},
      list \in UdpLists }

\* udp_proxy::run after ProxyState::update_config(cfg): the socket is bound, the
\* engine's LoadBalancer built, both tables are empty and the reaper's interval
\* ticks at once
InitUdp ==
    /\ now = 0
    /\ round_robin_counter = U64(0)
    /\ hash_of = [c \in Contexts |-> 0]
    /\ lb_call = <<"new", None>>
    /\ lb_ret = None
    /\ lb_history = <<>>
    /\ lb_complete = TRUE
    /\ lb_selects = 0
    /\ lb_inflight = <<>>
    /\ breakers = <<>>
    /\ cb_call = <<"new", "", "">>
    /\ cb_ret = FALSE
    /\ cb_fresh_failures = <<>>
    /\ cb_probe_successes = <<>>
    /\ cb_streak = <<>>
    /\ bucket = NewBucket(0, 0, 0)
    /\ bucket_call = <<"new", 0, 0, 0>>
    /\ bucket_ret = <<>>
    /\ per_connection_limiters = <<>>
    /\ per_connection_limit = None
    /\ last_cleanup = 0
    /\ rl_call = <<"new", NoClient>>
    /\ rl_ret = FALSE
    /\ rl_burst = [c \in Clients \cup {NoClient} |-> <<0, 0>>]
    /\ \E cfg \in UdpConfigs :
          /\ config = Some(cfg)
          /\ cfg_last = Some(cfg)
          /\ error_threshold = cfg.circuit_breaker_threshold
          /\ timeout = cfg.circuit_breaker_timeout_secs * TicksPerSec
          /\ global_limiter = NewBucket(cfg.rate_limit_rps, cfg.rate_limit_burst, 0)
          /\ algorithm = from_str(cfg.algorithm)
          /\ backends = [i \in 1..Len(cfg.backends) |-> WithStats(cfg.backends[i])]
    /\ cfg_pending = <<>>
    /\ active_connections = {}
    /\ connection_counter = U64(0)
    /\ draining = FALSE
    /\ cfg_call = <<"new", None>>
    /\ cfg_ret = None
    /\ tcp_sessions = <<>>
    /\ tcp_returned = ""
    /\ active_tcp_connections = U64(0)
    /\ udp_sessions = <<>>
    /\ udp_reverse = <<>>
    /\ udp_handlers = <<>>
    /\ udp_expired = {}
    /\ udp_removed = None
    /\ udp_tick_due = TRUE
    /\ udp_call = <<"new", "">>
    /\ tcp_loop = "check"
    /\ drain_rpc = [pc |-> "idle", before |-> 0, flag |-> FALSE]
    /\ drain_ret = None
    /\ wait_pc = "idle"
    /\ reload_rpc = [pc |-> "idle", list |-> <<>>, prior |-> None, ret |-> None]

SpecUdp == InitUdp /\ [][NextUdp]_vars

\* the reaper is a task of its own that the runtime keeps running: a pass that
\* is due begins, and a pass under way goes on
FairSpecUdp ==
    /\ SpecUdp
    /\ WF_vars(ReaperScan)
    /\ WF_vars(\E key \in UdpKeys : ReaperRemoveForward(key))
    /\ WF_vars(ReaperRemoveReverse)

\* the backend lists the session-creation failures are looked at with: none
\* healthy, only one whose address names a host, and that one before a good one
UdpCreateLists ==
    { <<[address |-> "x", weight |-> 1, healthy |-> FALSE]>>,
      <<[address |-> "host", weight |-> 1, healthy |-> TRUE]>>,
      <<[address |-> "host", weight |-> 1, healthy |-> TRUE],
        [address |-> "x", weight |-> 1, healthy |-> TRUE]>> }
UdpCreateConfigs ==
    { [cfg EXCEPT !.backends = list, !.algorithm = "round_robin"] :
      cfg \in {c \in Configs : c.udp_address # "" /\ c.circuit_breaker_threshold = 1},
      list \in UdpCreateLists }

\* udp_proxy::run with one of these configurations
InitUdpCreate ==
    /\ now = 0
    /\ round_robin_counter = U64(0)
    /\ hash_of = [c \in Contexts |-> 0]
    /\ lb_call = <<"new", None>>
    /\ lb_ret = None
    /\ lb_history = <<>>
    /\ lb_complete = TRUE
    /\ lb_selects = 0
    /\ lb_inflight = <<>>
    /\ breakers = <<>>
    /\ cb_call = <<"new", "", "">>
    /\ cb_ret = FALSE
    /\ cb_fresh_failures = <<>>
    /\ cb_probe_successes = <<>>
    /\ cb_streak = <<>>
    /\ bucket = NewBucket(0, 0, 0)
    /\ bucket_call = <<"new", 0, 0, 0>>
    /\ bucket_ret = <<>>
    /\ per_connection_limiters = <<>>
    /\ per_connection_limit = None
    /\ last_cleanup = 0
    /\ rl_call = <<"new", NoClient>>
    /\ rl_ret = FALSE
    /\ rl_burst = [c \in Clients \cup {NoClient} |-> <<0, 0>>]
    /\ \E cfg \in UdpCreateConfigs :
          /\ config = Some(cfg)
          /\ cfg_last = Some(cfg)
          /\ error_threshold = cfg.circuit_breaker_threshold
          /\ timeout = cfg.circuit_breaker_timeout_secs * TicksPerSec
          /\ global_limiter = NewBucket(cfg.rate_limit_rps, cfg.rate_limit_burst, 0)
          /\ algorithm = from_str(cfg.algorithm)
          /\ backends = [i \in 1..Len(cfg.backends) |-> WithStats(cfg.backends[i])]
    /\ cfg_pending = <<>>
    /\ active_connections = {}
    /\ connection_counter = U64(0)
    /\ draining = FALSE
    /\ cfg_call = <<"new", None>>
    /\ cfg_ret = None
    /\ tcp_sessions = <<>>
    /\ tcp_returned = ""
    /\ active_tcp_connections = U64(0)
    /\ udp_sessions = <<>>
    /\ udp_reverse = <<>>
    /\ udp_handlers = <<>>
    /\ udp_expired = {}
    /\ udp_removed = None
    /\ udp_tick_due = TRUE
    /\ udp_call = <<"new", "">>
    /\ tcp_loop = "check"
    /\ drain_rpc = [pc |-> "idle", before |-> 0, flag |-> FALSE]
    /\ drain_ret = None
    /\ wait_pc = "idle"
    /\ reload_rpc = [pc |-> "idle", list |-> <<>>, prior |-> None, ret |-> None]

\* the engine's steps while the selections made are within the bound
NextUdpCreate ==
    \/ \E peer \in UdpPeers : UdpReply(peer)
    \/ \E peer \in UdpPeers :
          /\ U64Less(round_robin_counter, U64(MaxUdpSelects))
          /\ UdpFromClient(peer)
    \/ \E h \in 1..Len(udp_handlers) : UdpInsertReverse(h)
    \/ ReaperScan
    \/ \E key \in UdpKeys : ReaperRemoveForward(key)
    \/ ReaperRemoveReverse
    \/ UdpTick

SpecUdpCreate == InitUdpCreate /\ [][NextUdpCreate]_vars

-----
(* Circuit breaker: properties *)

\* C1: a breaker that has received only record_failure calls since it was
\* constructed, k of them, with error_threshold T >= 1, is Closed when k < T and
\* Open when k >= T: it opens exactly on the T-th failure.
\* (cb_fresh_failures counts up to T + 1 and stays there.)
C1_OpensOnThresholdFailure ==
    \A a \in DOMAIN breakers :
        (breakers[a].error_threshold >= 1 /\ cb_fresh_failures[a] >= 0) =>
            breakers[a].state =
                IF cb_fresh_failures[a] < breakers[a].error_threshold
                THEN "Closed" ELSE "Open"

C1_Witness ==
    \E a \in DOMAIN breakers :
        /\ breakers[a].error_threshold >= 2
        /\ cb_fresh_failures[a] = breakers[a].error_threshold
        /\ cb_call = <<"record_failure", a, "Closed">>
        /\ breakers[a].state = "Open"

\* C2: allow_request on an Open breaker returns false and leaves the breaker as it
\* is while less than `timeout` has passed since last_failure_time; once at least
\* `timeout` has passed it returns true, the state is HalfOpen and success_count 0.
C2_OpenAdmission ==
    [][ \A a \in Addrs :
          cb_call' = <<"allow_request", a, "Open">> =>
             LET b == breakers[a]
                 elapsed == now - Unwrap(b.last_failure_time)
             IN  /\ IsSome(b.last_failure_time)
                 /\ IF elapsed < b.timeout
                    THEN cb_ret' = FALSE /\ breakers'[a] = b
                    ELSE /\ cb_ret' = TRUE
                         /\ breakers'[a].state = "HalfOpen"
                         /\ breakers'[a].success_count = 0 ]_vars

C2_Witness ==
    \E a \in DOMAIN breakers :
        /\ cb_call = <<"allow_request", a, "Open">>
        /\ breakers[a].timeout > 0
        /\ now - Unwrap(breakers[a].last_failure_time) = breakers[a].timeout
        /\ cb_ret = TRUE
        /\ breakers[a].state = "HalfOpen"

\* C3: after the breaker turned HalfOpen and n record_success calls followed with
\* no record_failure (and no reset) in between, it is still HalfOpen when n < 3 and
\* it is Closed with failure_count, success_count and last_failure_time reset
\* when n = 3 = half_open_max_requests.
C3_ClosesOnThirdSuccess ==
    \A a \in DOMAIN breakers :
        LET n == cb_probe_successes[a]
            b == breakers[a]
        IN  /\ (n >= 0 /\ n < 3) => b.state = "HalfOpen"
            /\ n = 3 => /\ b.half_open_max_requests = 3
                        /\ b.state = "Closed"
                        /\ b.failure_count = 0
                        /\ b.success_count = 0
                        /\ b.last_failure_time = None

C3_Witness ==
    \E a \in DOMAIN breakers :
        /\ cb_probe_successes[a] = 3
        /\ cb_call = <<"record_success", a, "HalfOpen">>
        /\ breakers[a].state = "Closed"

\* C4: reset_backend turns the one breaker, reset_all every existing breaker, into
\* the breaker CircuitBreaker::new gives for the same threshold and timeout,
\* whatever its state and counters were; no breaker is created or removed.
C4_ResetIsNew ==
    [][ /\ cb_call'[1] = "reset_backend" =>
             /\ DOMAIN breakers' = DOMAIN breakers
             /\ \A x \in DOMAIN breakers :
                   breakers'[x] =
                      IF x = cb_call'[2]
                      THEN NewBreaker(breakers[x].error_threshold, breakers[x].timeout)
                      ELSE breakers[x]
        /\ cb_call'[1] = "reset_all" =>
             /\ DOMAIN breakers' = DOMAIN breakers
             /\ \A x \in DOMAIN breakers :
                   breakers'[x] =
                      NewBreaker(breakers[x].error_threshold, breakers[x].timeout) ]_vars

C4_Witness ==
    \E a \in DOMAIN breakers :
        /\ cb_call = <<"reset_backend", a, "Open">>
        /\ breakers[a] = NewBreaker(error_threshold, timeout)
        /\ error_threshold >= 1

\* C5: breakers are per address.  allow_request and record_failure on address a
\* leave a breaker for a; record_success on an address with no breaker creates
\* none; and a call on a changes neither the existence, nor the fields, nor the
\* admission result of the breaker of any other address.
C5_PerAddressIndependence ==
    [][ \A a \in Addrs :
          (cb_call'[2] = a /\ cb_call'[1] \in
               {"allow_request", "record_success", "record_failure", "reset_backend"}) =>
             /\ \A x \in Addrs \ {a} :
                   /\ (x \in DOMAIN breakers') <=> (x \in DOMAIN breakers)
                   /\ x \in DOMAIN breakers =>
                        /\ breakers'[x] = breakers[x]
                        /\ BreakerAllowRequest(breakers'[x], now').ret
                              = BreakerAllowRequest(breakers[x], now).ret
             /\ cb_call'[1] \in {"allow_request", "record_failure"} =>
                   a \in DOMAIN breakers'
             /\ (cb_call'[1] = "record_success" /\ a \notin DOMAIN breakers) =>
                   a \notin DOMAIN breakers' ]_vars

C5_Witness ==
    \E a \in DOMAIN breakers, x \in DOMAIN breakers :
        /\ a # x
        /\ cb_call = <<"record_failure", a, "Absent">>
        /\ breakers[x].state = "Open"

----------------------------------------------------------------------------
(* Token bucket and rate limiter: properties *)

\* C6: after every try_consume(n) and available_tokens call, whatever time passed
\* between the calls, the bucket's tokens are within 0 and capacity.
C6_TokensWithinCapacity ==
    /\ 0 <= bucket.tokens
    /\ bucket.tokens <= Whole(bucket.capacity)

\* a refill that had more to add than the bucket could hold
C6_Witness ==
    /\ bucket_call[1] = "available_tokens"
    /\ bucket.capacity >= 1
    /\ bucket_call[3] < Whole(bucket.capacity)
    /\ bucket_call[3] + bucket_call[4] * bucket.refill_rate > Whole(bucket.capacity)
    /\ bucket.tokens = Whole(bucket.capacity)

\* C7: a RateLimiter with global burst B >= 1 and no per-client policy.  While the
\* clock has not advanced since construction, of n allow_request(None) calls
\* min(n, B) were admitted, the n-th returning true iff n <= B; and an
\* allow_request(None) made when the time since the last refill is worth at least
\* one token returns true.
C7_Burst ==
    LET n == rl_burst[NoClient][1]
        m == rl_burst[NoClient][2]
        B == global_limiter.capacity
    IN  (/\ per_connection_limit = None
         /\ B >= 1
         /\ n >= 0
         /\ \A c \in Clients : rl_burst[c] = <<0, 0>>) =>
            /\ m = Min(n, B)
            /\ (rl_call = <<"allow_request", NoClient>> /\ n >= 1) => (rl_ret = (n <= B))

C7_GlobalBurstThenRefill ==
    [][ /\ C7_Burst'
        /\ (/\ rl_call' = <<"allow_request", NoClient>>
            /\ per_connection_limit = None
            /\ global_limiter.capacity >= 1
            /\ (now - global_limiter.last_refill) * global_limiter.refill_rate
                  >= Whole(1)) => rl_ret' = TRUE ]_vars

C7_Witness ==
    /\ per_connection_limit = None
    /\ global_limiter.capacity >= 2
    /\ rl_burst = [c \in Clients \cup {NoClient} |->
                     IF c = NoClient
                     THEN <<global_limiter.capacity + 1, global_limiter.capacity>>
                     ELSE <<0, 0>>]
    /\ rl_call = <<"allow_request", NoClient>>
    /\ rl_ret = FALSE

\* C8: with a per-connection limit (rps, b), while the clock has not advanced since
\* construction and the calls made so far have not exhausted the global bucket,
\* every client was admitted min(n, b) times out of its n calls, its n-th call
\* returning true iff n <= b: a client's exhaustion does not reject another client.
C8_PerClientBuckets ==
    LET calls(c) == rl_burst[c][1]
        total == calls(NoClient) + calls("A") + calls("B")
    IN  (/\ IsSome(per_connection_limit)
         /\ \A c \in Clients \cup {NoClient} : calls(c) >= 0
         /\ total <= global_limiter.capacity) =>
            \A c \in Clients :
                LET b == Unwrap(per_connection_limit)[2]
                IN  /\ rl_burst[c][2] = Min(calls(c), b)
                    /\ (rl_call = <<"allow_request", c>> /\ calls(c) >= 1) =>
                          (rl_ret = (calls(c) <= b))

C8_Witness ==
    /\ IsSome(per_connection_limit)
    /\ Unwrap(per_connection_limit)[2] = 2
    /\ rl_burst["A"] = <<3, 2>>
    /\ rl_burst["B"] = <<1, 1>>
    /\ rl_burst[NoClient] = <<0, 0>>
    /\ rl_call = <<"allow_request", "B">>
    /\ rl_ret = TRUE

----------------------------------------------------------------------------
(* Load balancer: properties *)

\* C9: under round_robin with k >= 1 healthy backends and an unchanged backend
\* list, every selection returns a healthy backend, each selection returns the
\* healthy backend that follows the previous one in vector order (cyclically), any
\* k consecutive selections return every healthy backend exactly once, and the
\* first selection of a new balancer returns the first healthy backend.
C9_RoundRobinCycles ==
    LET H == HealthyOf(backends)
        k == Len(H)
        n == Len(lb_history)
        pos(r) == CHOOSE i \in 1..k : r = Some(H[i].address)
    IN  (algorithm = "RoundRobin" /\ k >= 1) =>
            /\ \A i \in 1..n : \E j \in 1..k : lb_history[i] = Some(H[j].address)
            /\ \A i \in 1..(n - 1) :
                  pos(lb_history[i + 1]) = (pos(lb_history[i]) % k) + 1
            /\ \A i \in 1..(n - k + 1) :
                  {lb_history[j] : j \in i..(i + k - 1)} = {Some(H[j].address) : j \in 1..k}
            /\ (lb_complete /\ n >= 1) => lb_history[1] = Some(H[1].address)

C9_Witness ==
    /\ algorithm = "RoundRobin"
    /\ lb_complete
    /\ Len(backends) = 3
    /\ \A i \in 1..3 : backends[i].healthy
    /\ lb_history = <<Some("x"), Some("y"), Some("z"), Some("x"), Some("y"), Some("z")>>

\* C10: under weighted_round_robin with healthy weights w_i of sum W > 0 and an
\* unchanged backend list, in any N consecutive selections backend i is selected
\* floor(N * w_i / W) or ceil(N * w_i / W) times.
C10_WeightedShare ==
    LET H == HealthyOf(backends)
        n == Len(lb_history)
        sum[i \in 0..Len(H)] == IF i = 0 THEN 0 ELSE sum[i - 1] + H[i].weight
        W == sum[Len(H)]
        count(a, i, N) == Cardinality({j \in i..(i + N - 1) : lb_history[j] = Some(a)})
    IN  (algorithm = "WeightedRoundRobin" /\ W > 0) =>
            \A N \in 1..n : \A i \in 1..(n - N + 1) : \A b \in 1..Len(H) :
                LET c == count(H[b].address, i, N)
                    share == N * H[b].weight
                IN  \/ c = share \div W
                    \/ c = share \div W + 1 /\ share % W # 0

\* C11: when no backend is healthy (an empty list included), a selection returns
\* None under every algorithm, with or without a context, and leaves the
\* round-robin counter as it was.
C11_NoHealthyBackend ==
    [][(lb_selects' = lb_selects + 1 /\ \A i \in 1..Len(backends) : ~backends[i].healthy)
          => (lb_ret' = None /\ round_robin_counter' = round_robin_counter)]_vars

C11_Witness ==
    /\ algorithm = "ConsistentHash"
    /\ Len(backends) = 2
    /\ \A i \in 1..2 : ~backends[i].healthy
    /\ lb_call = <<"select", Some("c1")>>
    /\ lb_ret = None
    /\ round_robin_counter = U64(0)
    /\ lb_selects = 2

\* C12: weighted_round_robin over healthy backends whose weights sum to 0, and
\* consistent_hash called without a context, return the backend at index
\* counter mod k of the k healthy backends, as round_robin does, and advance the
\* counter by exactly one.
C12_FallbackIsRoundRobin ==
    [][LET H == HealthyOf(backends)
           k == Len(H)
           fallback == \/ algorithm = "WeightedRoundRobin" /\ \A i \in 1..k : H[i].weight = 0
                       \/ algorithm = "ConsistentHash" /\ lb_call' = <<"select", None>>
       IN  (lb_selects' = lb_selects + 1 /\ k >= 1 /\ fallback)
              => /\ lb_ret' = Some(H[U64Mod(round_robin_counter, k) + 1].address)
                 /\ round_robin_counter' = U64Inc(round_robin_counter)]_vars

C12_Witness ==
    /\ algorithm = "WeightedRoundRobin"
    /\ Len(backends) = 3
    /\ \A i \in 1..3 : backends[i].healthy /\ backends[i].weight = 0
    /\ round_robin_counter = <<1, Limb \div 2, 0, 0>>
    /\ lb_history = <<Some("x"), Some("y"), Some("z")>>

\* C13: under consistent_hash with an unchanged backend list, a selection with a
\* context returns what the first selection with that context returned, whatever
\* selections were made in between, and leaves the round-robin counter as it was.
C13_Affinity ==
    [][(lb_selects' = lb_selects + 1 /\ algorithm = "ConsistentHash" /\ IsSome(lb_call'[2]))
          => /\ \A i \in 1..Len(lb_history) :
                   lb_history[i][1] = Unwrap(lb_call'[2]) => lb_ret' = lb_history[i][2]
             /\ round_robin_counter' = round_robin_counter]_vars

C13_Witness ==
    /\ algorithm = "ConsistentHash"
    /\ Len(HealthyOf(backends)) = 3
    /\ lb_history = <<<<"c1", Some("y")>>, <<"c2", Some("z")>>>>
    /\ lb_call = <<"select", Some("c1")>>
    /\ lb_ret = Some("y")
    /\ lb_selects = 5
    /\ round_robin_counter = U64(2)

----------------------------------------------------------------------------
(* ProxyState: properties *)

\* C14: get_config() returns the config of the last update_config that completed,
\* equal in every field, and is_configured() returns true once one has completed;
\* before the first, get_config() returns None and is_configured() false.
C14_GetConfigIsLastUpdate ==
    /\ cfg_call[1] = "get_config" => cfg_ret = cfg_last
    /\ cfg_call[1] = "is_configured" => cfg_ret = IsSome(cfg_last)

C14_Witness ==
    /\ cfg_call[1] = "get_config"
    /\ IsSome(cfg_ret)
    /\ Unwrap(cfg_ret).circuit_breaker_threshold = 2
    /\ Len(cfg_pending) = 1
    /\ cfg_pending[1] # Unwrap(cfg_ret)
    /\ error_threshold = 1

----------------------------------------------------------------------------
(* Claims about tcp_proxy.rs, under SpecTcp *)

\* the live tasks whose LoadBalancerGuard for the address is armed
Guarded(addr) ==
    {s \in 1..Len(tcp_sessions) :
        /\ tcp_sessions[s].pc \in {"connecting", "streaming", "closing"}
        /\ tcp_sessions[s].backend = Some(addr)}

\* C15: the connection registry holds exactly the ids of the tasks that have
\* not finished, each once: whatever path a task returned by (no healthy
\* backend, circuit open, connect error, connect timeout, I/O error, EOF), its
\* id is no longer registered and active_connection_count is what it was
\* without that session.
C15_UnregisteredOnReturn ==
    /\ active_connections =
          {Unwrap(tcp_sessions[s].conn_id) : s \in 1..Len(tcp_sessions)}
    /\ Cardinality(active_connections) = Len(tcp_sessions)

\* a task returned because the circuit was open, while the task whose I/O error
\* opened it is still registered
C15_Witness ==
    /\ tcp_returned = "circuit open"
    /\ Len(tcp_sessions) = 1
    /\ tcp_sessions[1].pc = "closing"
    /\ active_connections = {U64(1)}

\* C16: the active_tcp_connections gauge counts the sessions that were admitted
\* and have not finished: every exit path takes back, once, the increment of
\* record_tcp_connection.
C16_GaugeBalanced ==
    active_tcp_connections = U64(Len(tcp_sessions))

\* C17: with the backend list fixed, a backend's active_connections is the
\* number of sessions between their increment_connections for it and their
\* exit: every exit after the increment decrements once, and a session that
\* returns before the increment decrements nothing.
C17_BackendCountIsInflight ==
    \A i \in 1..Len(backends) :
        backends[i].active_connections =
            IF Find(backends, backends[i].address) = i
            THEN U64(Cardinality(Guarded(backends[i].address)))
            ELSE U64(0)

\* a session left by a connect timeout while another holds its guard on the
\* same backend
C17_Witness ==
    /\ tcp_returned = "connect timeout"
    /\ \E i \in 1..Len(backends) :
          /\ backends[i].active_connections = U64(1)
          /\ Cardinality(Guarded(backends[i].address)) = 1

----------------------------------------------------------------------------
(* Claims about udp_proxy.rs, under SpecUdp and FairSpecUdp *)

\* no handler is between its two table operations and the reaper is between
\* two passes
UdpAtRest == udp_handlers = <<>> /\ ReaperIdle

\* some session in the forward table has the address as its backend_socket_addr
LiveBackend(addr) ==
    \E k \in DOMAIN udp_sessions : udp_sessions[k].backend_socket_addr = addr

\* C18: for every forward entry with key K, the reverse table maps the entry's
\* backend_socket_addr to K, with any number of clients on a backend.  Stated
\* for the states where the tables are at rest, where the claim asks least: in
\* the midst of a handler or of a reaper pass the two tables differ in any case.
C18_ReverseMatchesForward ==
    UdpAtRest =>
        \A k \in DOMAIN udp_sessions :
            /\ udp_sessions[k].backend_socket_addr \in DOMAIN udp_reverse
            /\ udp_reverse[udp_sessions[k].backend_socket_addr] = k

\* C19: a datagram from the backend_socket_addr of a live session never creates
\* a forward entry keyed by that address.  Stated for the datagrams that arrive
\* while the tables are at rest.
C19_BackendNeverNewClient ==
    [][\A p \in UdpKeys :
          (UdpAtRest /\ LiveBackend(p) /\ p \notin DOMAIN udp_sessions)
              => p \notin DOMAIN udp_sessions']_vars

\* the backend addresses of the configs
UdpBackends == UNION {AddressesOf([i \in 1..Len(l) |-> l[i].address]) : l \in UdpLists}

\* the session of client key k, on backend b, has seen no packet for more than
\* SESSION_TIMEOUT
Silent(k, b) ==
    /\ k \in DOMAIN udp_sessions
    /\ udp_sessions[k].backend_socket_addr = b
    /\ now - udp_sessions[k].last_activity > SESSION_TIMEOUT * TicksPerSec

\* C20: a session that has been silent for more than SESSION_TIMEOUT is
\* eventually removed by the reaper, with neither forward[client] nor
\* reverse[backend_socket_addr] left, unless a packet reaches it first.
C20_SilentSessionsReaped ==
    \A k \in UdpKeys, b \in UdpBackends :
        Silent(k, b) ~>
            \/ k \notin DOMAIN udp_sessions /\ b \notin DOMAIN udp_reverse
            \/ k \in DOMAIN udp_sessions /\ ~Silent(k, b)

\* the reaper has removed the session of client A, its packets 70 s old, from
\* both tables
C20_Witness ==
    /\ udp_call = <<"reaped", "x">>
    /\ now = (SESSION_TIMEOUT + CLEANUP_INTERVAL) * TicksPerSec
    /\ udp_sessions = <<>>
    /\ udp_reverse = <<>>

----------------------------------------------------------------------------
(* Claims about rate_limiter.rs: try_consume and the order of the two checks *)

\* C28: try_consume(n) refills first and returns true iff the refilled count is
\* at least n; on true the tokens are the refilled count less n, on false they
\* are the refilled count.
C28_TryConsume ==
    bucket_call[1] = "try_consume" =>
        LET n == bucket_call[2]
            refilled == Min(bucket_call[3] + bucket_call[4] * bucket.refill_rate,
                            Whole(bucket.capacity))
        IN  /\ bucket_ret = <<refilled >= Whole(n)>>
            /\ bucket.tokens = IF refilled >= Whole(n) THEN refilled - Whole(n)
                               ELSE refilled

\* a request rejected after a refill that left the bucket short of it
C28_Witness ==
    /\ bucket_call[1] = "try_consume"
    /\ bucket_ret = <<FALSE>>
    /\ bucket_call[4] > 0
    /\ bucket.tokens > bucket_call[3]
    /\ bucket.tokens < Whole(bucket_call[2])

\* the global bucket, refilled at the time of the call, holds a token
GlobalAdmits ==
    Min(global_limiter.tokens
            + (now - global_limiter.last_refill) * global_limiter.refill_rate,
        Whole(global_limiter.capacity)) >= Whole(1)

\* C29: when the global bucket rejects, allow_request returns false and leaves
\* the per-client map as it was: no bucket created, no token taken.
C29_GlobalRejectionFirst ==
    [][(rl_call'[1] = "allow_request" /\ ~GlobalAdmits)
          => (rl_ret' = FALSE /\ per_connection_limiters' = per_connection_limiters)]_vars

\* client A, never seen before, is rejected by the global bucket that another
\* call emptied, and has no bucket
C29_Witness ==
    /\ rl_call = <<"allow_request", "A">>
    /\ rl_ret = FALSE
    /\ IsSome(per_connection_limit)
    /\ Unwrap(per_connection_limit)[2] >= 1
    /\ global_limiter.capacity = 1
    /\ rl_burst["A"] = <<1, 0>>
    /\ rl_burst[NoClient] = <<1, 1>>
    /\ per_connection_limiters = <<>>

\* C30: when the global bucket admits and the client's own bucket rejects,
\* allow_request returns false and the global bucket has lost one token.
C30_RejectedClientBurnsGlobal ==
    [][\A cid \in Clients :
          LET limit == Unwrap(per_connection_limit)
              own == refill(WithEntry(per_connection_limiters, LimiterKey(cid),
                                      limit, now)[LimiterKey(cid)], now)
          IN  (/\ rl_call' = <<"allow_request", cid>>
               /\ <<global_limiter, per_connection_limiters, rl_burst>>
                     # <<global_limiter', per_connection_limiters', rl_burst'>>
               /\ IsSome(per_connection_limit)
               /\ GlobalAdmits
               /\ own.tokens < Whole(1))
              => /\ rl_ret' = FALSE
                 /\ global_limiter' =
                       [refill(global_limiter, now) EXCEPT !.tokens = @ - Whole(1)]]_vars

\* client A, its own bucket of one token spent, has drained the global bucket
\* with rejected requests, and B, whose bucket is fresh, is rejected
C30_Witness ==
    /\ rl_call = <<"allow_request", "B">>
    /\ rl_ret = FALSE
    /\ per_connection_limit = Some(<<0, 1>>)
    /\ global_limiter.capacity = MaxBurst + 2
    /\ global_limiter.tokens = 0
    /\ rl_burst["A"] = <<MaxBurst + 2, 1>>
    /\ rl_burst["B"] = <<1, 0>>
    /\ rl_burst[NoClient] = <<0, 0>>
    /\ "B" \notin DOMAIN per_connection_limiters

----------------------------------------------------------------------------
(* Claims about DrainConnections, under SpecDrain *)

\* the step is the return of a DrainConnections call
DrainReturns == drain_rpc.pc \in {"drained", "timed out"} /\ drain_rpc'.pc = "idle"

\* C21: a DrainConnections called when no connection is active returns
\* success = true and drained = 0 and leaves the proxy as it was: the drain flag
\* after the call is what it was before it.
C21_IdleDrainIsNoOp ==
    [][(DrainReturns /\ drain_rpc.before = 0)
          => /\ Unwrap(drain_ret').success
             /\ Unwrap(drain_ret').drained = 0
             /\ draining' = drain_rpc.flag]_vars

C23_NoAcceptWhileDraining ==
    [][draining => /\ (tcp_loop = "accept" => tcp_loop' = "accept")
                   /\ connection_counter' = connection_counter]_vars

----------------------------------------------------------------------------
(* Claims about ReloadBackends and wait_for_config, under SpecControl *)

\* C24: a ReloadBackends made when no config is stored returns the error
\* "Proxy not configured" and changes nothing (no config, breakers and rate
\* limiter as they were); one made when a config is stored goes on with that
\* config, and when it returns the stored config has the list of the request as
\* its backends and every other field as in the config the call read, and the
\* count it reports is the length of the list.
C24_ReloadBackends ==
    [][/\ (reload_rpc.pc = "idle" /\ reload_rpc' # reload_rpc) =>
              IF config = None
              THEN /\ reload_rpc'.pc = "idle"
                   /\ reload_rpc'.ret = <<"error", "Proxy not configured">>
                   /\ config' = None
                   /\ UNCHANGED <<now, state_vars, breaker_vars, limiter_vars, bucket_vars,
                                  balancer_vars, tcp_vars, udp_vars, tcp_loop, drain_rpc,
                                  drain_ret, wait_pc>>
              ELSE /\ reload_rpc'.pc = "got"
                   /\ reload_rpc'.prior = config
       /\ (reload_rpc.pc = "updating" /\ reload_rpc'.pc = "idle") =>
              LET prior == Unwrap(reload_rpc.prior)
                  stored == Unwrap(config')
              IN  /\ IsSome(config')
                  /\ DOMAIN stored = DOMAIN prior
                  /\ stored.backends = reload_rpc.list
                  /\ \A f \in DOMAIN prior \ {"backends"} : stored[f] = prior[f]
                  /\ reload_rpc'.ret = <<"ok", Len(reload_rpc.list)>>]_vars

\* a reload of two backends has returned on a config with a UDP address
C24_Witness ==
    /\ reload_rpc.pc = "idle"
    /\ reload_rpc.ret = <<"ok", 2>>
    /\ IsSome(config)
    /\ IsSome(reload_rpc.prior)
    /\ Unwrap(config).udp_address = "udp"
    /\ Len(Unwrap(config).backends) = 2
    /\ Unwrap(reload_rpc.prior).backends # Unwrap(config).backends

\* C25: wait_for_config returns at once when a config is stored, and otherwise
\* returns in the end once a config has been stored, whatever the interleaving
\* with update_config: a waiter past its check does not stay suspended for ever
\* while a config is stored.
C25_NoLostWakeup ==
    /\ [][(wait_pc = "idle" /\ wait_pc' # "idle" /\ IsSome(config))
             => wait_pc' = "returned"]_vars
    /\ (wait_pc \in {"checked", "waiting"} /\ IsSome(config)) ~> (wait_pc = "returned")

----------------------------------------------------------------------------
(* Claims about config updates while the TCP engine runs, under SpecLive *)

\* the addresses of the healthy backends of a list
HealthyAddresses(list) == {list[i].address : i \in {k \in 1..Len(list) : list[k].healthy}}

\* the task is among the live tasks of the next state, at one of the pcs
TaskThen(t, pcs) ==
    {k \in 1..Len(tcp_sessions') : /\ tcp_sessions'[k].conn_id = t.conn_id
                                   /\ tcp_sessions'[k].pc \in pcs}

\* C26: a TCP session accepted after UpdateConfig or ReloadBackends changed the
\* backend list selects its backend from the new list: the selection of a
\* session takes a healthy backend of the list stored when it was accepted.
C26_NewSessionsSeeNewBackends ==
    [][\A s \in 1..Len(tcp_sessions) :
          LET t == tcp_sessions[s]
              offered == HealthyAddresses(Unwrap(t.accepted_under).backends)
          IN  (t.pc = "registered" /\ TaskThen(t, {"registered"}) = {})
                 => IF offered = {}
                    THEN TaskThen(t, {"selected"}) = {}
                    ELSE \E k \in TaskThen(t, {"selected"}) :
                            Unwrap(tcp_sessions'[k].backend) \in offered]_vars

\* C27: a TCP session keeps to one configuration version for its lifetime: once
\* update_config has replaced the breaker manager that admitted a session, the
\* session records no connect success, failure or close success on the manager
\* of the state, which belongs to the newer version.
C27_SessionKeepsItsVersion ==
    [][\A s \in 1..Len(tcp_sessions) :
          LET t == tcp_sessions[s]
          IN  (t.stale /\ t.pc \in {"connecting", "streaming", "closing"})
                 => \E k \in 1..Len(tcp_sessions') : tcp_sessions'[k] = t]_vars

----------------------------------------------------------------------------
(* Claims about the breaker's counters, under SpecBreaker *)

\* C31, as stated: record_success on a Closed breaker sets failure_count to 0,
\* and a breaker that has been Closed since its last success, construction or
\* reset is Open iff the record_failure calls since then have reached
\* error_threshold.
C31_OpenIffStreakReachedThreshold ==
    [][/\ \A a \in Addrs :
             cb_call' = <<"record_success", a, "Closed">> =>
                breakers'[a] = [breakers[a] EXCEPT !.failure_count = 0]
       /\ \A a \in DOMAIN breakers' :
             cb_streak'[a] >= 0 =>
                (breakers'[a].state = "Open"
                    <=> cb_streak'[a] >= breakers'[a].error_threshold)]_vars

\* C31, amended: the same with the threshold read as max(error_threshold, 1): a
\* breaker with error_threshold 0 is Closed when constructed and opens on its
\* first failure.  While such a breaker is Closed its failure_count is the
\* number of failures since the last success, construction or reset.
C31_OpenIffStreakReachedThresholdOrOne ==
    [][/\ \A a \in Addrs :
             cb_call' = <<"record_success", a, "Closed">> =>
                breakers'[a] = [breakers[a] EXCEPT !.failure_count = 0]
       /\ \A a \in DOMAIN breakers' :
             LET b == breakers'[a]
                 reached == IF b.error_threshold >= 1 THEN b.error_threshold ELSE 1
             IN  cb_streak'[a] >= 0 =>
                    /\ b.state \in {"Closed", "Open"}
                    /\ b.state = "Open" <=> cb_streak'[a] >= reached
                    /\ b.state = "Closed" => b.failure_count = cb_streak'[a]]_vars

\* with threshold 2: a failure, a success, a failure, and the breaker is Closed
\* with one failure counted
C31_Witness ==
    \E a \in DOMAIN breakers :
        /\ breakers[a].error_threshold = 2
        /\ cb_call = <<"record_failure", a, "Closed">>
        /\ cb_streak[a] = 1
        /\ cb_fresh_failures[a] = -1
        /\ breakers[a].state = "Closed"
        /\ breakers[a].failure_count = 1

\* allow_request on the breaker at every time from `from` on that the clock can
\* show is refused before `from` + timeout and admitted from then on
RefusedForTimeout(b, from) ==
    \A t \in from..(MaxTime + b.timeout) :
        BreakerAllowRequest(b, t).ret <=> (t - from >= b.timeout)

\* C32: a record_failure on a HalfOpen breaker makes it Open at once, whatever
\* success_count and failure_count are (both are kept), with last_failure_time
\* the time of the call; allow_request is refused until a whole timeout has
\* passed since the call.
C32_HalfOpenFailureReopens ==
    [][\A a \in Addrs :
          cb_call' = <<"record_failure", a, "HalfOpen">> =>
             /\ breakers'[a] = [breakers[a] EXCEPT !.state = "Open",
                                                   !.last_failure_time = Some(now)]
             /\ RefusedForTimeout(breakers'[a], now)]_vars

\* the probe failed after two successes, later than the failure that opened
C32_Witness ==
    \E a \in DOMAIN breakers :
        /\ cb_call = <<"record_failure", a, "HalfOpen">>
        /\ breakers[a].state = "Open"
        /\ breakers[a].success_count = 2
        /\ breakers[a].timeout > 0
        /\ now > 0
        /\ breakers[a].last_failure_time = Some(now)

\* C33: on an Open breaker record_success changes nothing, and record_failure
\* changes last_failure_time, to the time of the call, and nothing else; so a
\* failure reported while Open moves the first admitted allow_request to a whole
\* timeout after that failure.
C33_OpenFrame ==
    [][\A a \in Addrs :
          /\ cb_call' = <<"record_success", a, "Open">> => breakers'[a] = breakers[a]
          /\ cb_call' = <<"record_failure", a, "Open">> =>
                /\ breakers'[a] = [breakers[a] EXCEPT !.last_failure_time = Some(now)]
                /\ RefusedForTimeout(breakers'[a], now)]_vars

\* a failure reported while Open, a timeout or more into the run: refused anew
C33_Witness ==
    \E a \in DOMAIN breakers :
        /\ cb_call = <<"record_failure", a, "Open">>
        /\ breakers[a].state = "Open"
        /\ breakers[a].timeout > 0
        /\ now >= breakers[a].timeout
        /\ breakers[a].last_failure_time = Some(now)
        /\ ~BreakerAllowRequest(breakers[a], now).ret

----------------------------------------------------------------------------
(* Claims about the teardown of a TCP session, under SpecTcp *)

\* C34: a session whose copy ended with an I/O error has recorded one breaker
\* failure for its backend, and its teardown records no breaker success: the
\* step in which such a session closes leaves the breakers as they are.
C34_IoErrorRecordsNoSuccess ==
    [][\A s \in 1..Len(tcp_sessions) :
          LET t == tcp_sessions[s]
          IN  /\ (t.pc = "streaming" /\ TaskThen(t, {"closing"}) # {}) =>
                    breakers' = manager_record_failure(breakers, Unwrap(t.backend), now)
              /\ (t.pc = "closing" /\ TaskThen(t, {"closing"}) = {}) =>
                    breakers' = breakers]_vars

----------------------------------------------------------------------------
(* Claims about the connection counts, under SpecConnections *)

\* the positions of the healthy backends with the fewest active connections
\* among the healthy ones
LeastLoaded(bs) ==
    {i \in 1..Len(bs) :
        /\ bs[i].healthy
        /\ \A j \in 1..Len(bs) :
              bs[j].healthy => ~U64Less(bs[j].active_connections, bs[i].active_connections)}

\* C35: under least_connections a selection returns a healthy backend whose
\* active_connections is the least among the healthy backends, the earliest in
\* the vector of those with the least; an unhealthy backend is never returned,
\* whatever its count; with no healthy backend nothing is returned.
C35_LeastConnections ==
    [][(algorithm = "LeastConnections" /\ lb_call'[1] = "select" /\ lb_selects' # lb_selects) =>
          LET least == LeastLoaded(backends)
          IN  IF least = {} THEN lb_ret' = None
              ELSE lb_ret' = Some(backends[CHOOSE i \in least :
                                              \A j \in least : i <= j].address)]_vars

\* z is returned: x is busy, y is idle but unhealthy, z is idle and healthy
C35_Witness ==
    /\ algorithm = "LeastConnections"
    /\ lb_call[1] = "select"
    /\ Len(backends) = 3
    /\ backends[1].healthy /\ backends[1].active_connections = U64(1)
    /\ ~backends[2].healthy /\ backends[2].active_connections = U64(0)
    /\ backends[3].healthy /\ backends[3].active_connections = U64(0)
    /\ lb_ret = Some(backends[3].address)

\* C39: a backend's active_connections never wraps below zero: no
\* decrement_connections, each made by a session that incremented the address
\* before, finds the counter of its backend at 0, update_backends included in
\* the interleavings.
C39_NoUnderflow ==
    [][\A addr \in AddressesOf(BackendNames) :
          lb_call' = <<"decrement_connections", Some(addr)>> /\ lb_inflight' # lb_inflight =>
             LET i == Find(backends, addr)
             IN  i # 0 => backends[i].active_connections # U64(0)]_vars

----------------------------------------------------------------------------
(* Claims about what update_config does to admission control, under SpecLive *)

\* the step replaces the breaker manager and the rate limiter: the first half of
\* an update_config, called by UpdateConfig or by ReloadBackends
Replaces ==
    /\ cfg_call'[1] = "update_config"
    /\ \/ Len(cfg_pending') > Len(cfg_pending)
       \/ reload_rpc.pc = "got" /\ reload_rpc'.pc = "updating"

\* C36: update_config(cfg) wipes the admission-control state: right after the
\* replacement no address has a breaker, whatever state its breaker was in, the
\* new manager has cfg's threshold and timeout, and the global bucket is full at
\* cfg's burst with no per-connection bucket left; for the update_config of an
\* UpdateConfig and of a ReloadBackends alike.
C36_UpdateWipesAdmission ==
    [][Replaces =>
          LET cfg == Unwrap(cfg_call'[2])
          IN  /\ breakers' = <<>>
              /\ error_threshold' = cfg.circuit_breaker_threshold
              /\ timeout' = cfg.circuit_breaker_timeout_secs * TicksPerSec
              /\ \A a \in AddressesOf(BackendNames) :
                    LET r == BreakerAllowRequest(NewBreaker(error_threshold', timeout'), now)
                    IN  r.ret /\ r.b.state = "Closed" /\ r.b.failure_count = 0
              /\ global_limiter'.capacity = cfg.rate_limit_burst
              /\ global_limiter'.tokens = Whole(cfg.rate_limit_burst)
              /\ per_connection_limiters' = <<>>]_vars

\* a ReloadBackends replaced the manager after a connect error had opened the
\* breaker of x and two admissions had taken tokens
C36_Witness ==
    /\ reload_rpc.pc = "updating"
    /\ cfg_call[1] = "update_config"
    /\ tcp_returned = "connect error"
    /\ connection_counter = U64(2)
    /\ breakers = <<>>
    /\ global_limiter.tokens = Whole(global_limiter.capacity)
    /\ global_limiter.capacity = Unwrap(config).rate_limit_burst

-----------------------------------------------------------------------------
(* Claims about a UDP session that cannot be created, under SpecUdpCreate *)

\* C37: when a client's first datagram finds no healthy backend, or a selected
\* backend whose address does not parse, the handler's step creates no forward
\* and no reverse entry, forwards nothing, and changes no other state of the
\* engine, the load balancer's round-robin counter included; the engine goes
\* on receiving.
C37_FailedCreationChangesNothing ==
    [][\A key \in UdpKeys :
          (udp_call' = <<"panic", key>> /\ key \notin DOMAIN udp_sessions)
          => /\ udp_sessions' = udp_sessions
             /\ udp_reverse' = udp_reverse
             /\ udp_handlers' = udp_handlers
             /\ round_robin_counter' = round_robin_counter
             /\ backends' = backends
             /\ draining' = draining]_vars

-----------------------------------------------------------------------------
(* Claims about the reaper's removals, under SpecUdp *)

\* the reaper's sessions.remove(&key) takes a session out that is expired at
\* that moment
RemovesOnlyExpired ==
    \A key \in UdpKeys :
       (udp_call' = <<"removed", key>> /\ key \in DOMAIN udp_sessions
          /\ key \notin DOMAIN udp_sessions')
       => is_expired(udp_sessions[key], SESSION_TIMEOUT * TicksPerSec, now)

\* the reaper's reverse_sessions.remove, which completes a removal, leaves no
\* reverse entry that names a client without a forward entry
RemovalLeavesNoDanglingReverse ==
    (udp_removed # None /\ udp_removed' = None)
    => \A b \in DOMAIN udp_reverse' : udp_reverse'[b] \in DOMAIN udp_sessions'

\* C40: whatever the packet handlers do between the reaper's scan and its
\* removals, the reaper removes only sessions whose last activity is older
\* than SESSION_TIMEOUT when they are removed, and no removal leaves a reverse
\* entry whose forward entry is absent.
C40_ReaperRemovesOnlyExpired ==
    [][RemovesOnlyExpired /\ RemovalLeavesNoDanglingReverse]_vars

====
